---- MODULE Spec2Model ----
(***************************************************************************)
(* A model of the telentir-sdk encrypted-object layer:                     *)
(*   - the three KeyCache backends (InMemoryKeyCache, FsKeyCache,          *)
(*     StorageKeyCache) with their TTL and capacity policies, and          *)
(*   - the ObjectManager built on top of a key cache and a remote store.   *)
(*                                                                         *)
(* SpecCache drives one key cache through its four public operations and   *)
(* a clock.  Spec drives one ObjectManager against a remote store.         *)
(***************************************************************************)
EXTENDS Integers, Sequences, FiniteSets, TLC

\* An optional value: None is JavaScript's undefined (an absent slot, an unset
\* option, a cache miss); Some(x) is the value x; Val(o) is the value held.
None == <<>>
Some(x) == <<x>>
Val(o) == o[1]

(***************************************************************************)
(* Bounds of the model.                                                    *)
(***************************************************************************)
\* The clock (Date.now()) runs over 0..MaxTime.
MaxTime == 2
\* The largest ttlMs / maxEntries option a cache is configured with.
MaxTtl == 2
MaxCap == 1
\* The largest maxEntries of the caches the write specification fills.
MaxFill == 2
\* The identifiers the key-cache specification writes and reads.
CacheIds == {"a", "b"}
\* The identifiers the write specification persists.
WriteIds == {"a", "b", "c"}
\* The key material the key-cache specification persists.
Materials == {1, 2}
\* The remote store hands out object ids 1..MaxObjects and key ids 1..MaxKeys;
\* createContext draws fresh symmetric keys 1..MaxSyms.
MaxObjects == 4
MaxKeys == 2
MaxSyms == 3
\* A session issues at most MaxOps operations.
MaxOps == 2
ObjIds == 1..MaxObjects
KeyIds == 1..MaxKeys
\* The JSON payloads callers encrypt.
Payloads == {"Alice", "Bob"}

VARIABLES
    \* ---- key cache (one instance) ----
    backend,       \* "memory" | "fs" | "storage" | "none" (no keyCache configured)
    ttlMs,         \* options.ttlMs: None or a number
    maxEntries,    \* options.maxEntries: None or a number
    clock,         \* Date.now()
    store,         \* [ents: id -> entry | None, order: Seq(id)]
    cacheLast,     \* the last key-cache operation and what it did
    \* ---- ObjectManager (one instance) and the remote store ----
    objectCache,           \* Map<string, ObjectResponse>
    keyResponseCache,      \* Map<string, KeyResponse>
    relatedObjectsCache,   \* Map<string, ObjectResponse[]>
    remote,                \* the remote store: keys, objects, publish jobs
    symCounter,            \* the next fresh symmetric key createContext draws
    opCount,               \* the operations the session has issued
    last,                  \* the last ObjectManager operation and its outcome
    roster,                \* what refreshRoot / refreshRemotes have loaded
    cacheOps,              \* how the supplied KeyCache answers each operation
    session,               \* the managers constructed so far over the stores
    landsLast,             \* of two overlapping writeFile calls on one file
    \* ---- persist calls of the filesystem cache that are in flight ----
    calls,
    directory,             \* the cache directory: mkdir calls, their outcome
    \* ---- ObjectManager operations that are in flight ----
    flights

cacheVars == <<backend, ttlMs, maxEntries, clock, store, cacheLast>>

managerVars == <<objectCache, keyResponseCache, relatedObjectsCache, remote,
                 symCounter, opCount, last, roster, cacheOps, session,
                 landsLast, directory, flights>>

vars == <<backend, ttlMs, maxEntries, clock, store, cacheLast,
          objectCache, keyResponseCache, relatedObjectsCache, remote,
          symCounter, opCount, last, roster, cacheOps, session, landsLast,
          calls, directory, flights>>

(***************************************************************************)
(* Key cache: shared policy of the three backends.                         *)
(*                                                                         *)
(* An entry is [decrypted, encrypted, stamp, raw]; a slot is None or a     *)
(* record with its expiresAt (None: never expires).  stamp is the entry's  *)
(* persisted recency: the file's modification time (fs), updatedAt         *)
(* (storage); the memory backend ranks by Map insertion order instead      *)
(* (store.order) and keeps stamp 0.  raw is what the persisted text of a   *)
(* file or storage slot is: "record" (the JSON of a cache record),         *)
(* "malformed" (text JSON.parse rejects) or "null" (the JSON text null).   *)
(***************************************************************************)
Config == [backend |-> backend, ttlMs |-> ttlMs, maxEntries |-> maxEntries]

\* computeExpiry(): this.ttlMs ? Date.now() + this.ttlMs : undefined
computeExpiry(cfg, now) ==
    IF cfg.ttlMs # None /\ Val(cfg.ttlMs) # 0
    THEN Some(now + Val(cfg.ttlMs)) ELSE None

\* isExpired(entry, now): expiresAt !== undefined && expiresAt <= now
isExpired_lt(slot, now) == slot.expiresAt # None /\ Val(slot.expiresAt) < now
isExpired(slot, now) == slot.expiresAt # None /\ Val(slot.expiresAt) <= now

\* readEntry: a slot as it survives the expiry check of a read at `now`.
LiveSlot(slot, now) ==
    IF slot # None /\ isExpired(Val(slot), now) THEN None ELSE slot

RemoveId(st, id) ==
    [ents |-> [st.ents EXCEPT ![id] = None],
     order |-> SelectSeq(st.order, LAMBDA x : x # id)]

\* readEntry(id) of the three backends: [entry, store].
\*  - memory mutates the Map's entry in place;
\*  - storage rewrites the slot keeping updatedAt;
\*  - fs rewrites the file, which gives it a new modification time.
\*  - JSON.parse throws on malformed text: the record is removed, a miss;
\*  - JSON.parse("null") is null, and reading entry.decrypted of null throws
\*    a TypeError outside the try block (threw).
readEntry(cfg, now, st, id) ==
    IF st.ents[id] = None
    THEN [entry |-> None, store |-> st, threw |-> FALSE]
    ELSE IF Val(st.ents[id]).raw = "malformed"
    THEN [entry |-> None, store |-> RemoveId(st, id), threw |-> FALSE]
    ELSE IF Val(st.ents[id]).raw = "null"
    THEN [entry |-> None, store |-> st, threw |-> TRUE]
    ELSE
      LET e == Val(st.ents[id])
          dec == LiveSlot(e.decrypted, now)
          enc == LiveSlot(e.encrypted, now)
          changed == dec # e.decrypted \/ enc # e.encrypted
          stamp == IF cfg.backend = "fs" /\ changed THEN now ELSE e.stamp
          kept == [decrypted |-> dec, encrypted |-> enc, stamp |-> stamp,
                   raw |-> "record"]
      IN IF dec = None /\ enc = None
         THEN [entry |-> None, store |-> RemoveId(st, id), threw |-> FALSE]
         ELSE [entry |-> Some(kept),
               store |-> [st EXCEPT !.ents[id] = Some(kept)],
               threw |-> FALSE]

\* getDecryptedKey(id): {header, key, iv} or undefined.
getDecryptedKey(cfg, now, st, id) ==
    LET r == readEntry(cfg, now, st, id) IN
    [res |-> IF r.entry # None /\ Val(r.entry).decrypted # None
             THEN Some([header |-> Val(Val(r.entry).decrypted).header,
                        key |-> Val(Val(r.entry).decrypted).key,
                        iv |-> Val(Val(r.entry).decrypted).iv])
             ELSE None,
     store |-> r.store, threw |-> r.threw]

\* getEncryptedKey(id): {key, iv} or undefined.
getEncryptedKey(cfg, now, st, id) ==
    LET r == readEntry(cfg, now, st, id) IN
    [res |-> IF r.entry # None /\ Val(r.entry).encrypted # None
             THEN Some([key |-> Val(Val(r.entry).encrypted).key,
                        iv |-> Val(Val(r.entry).encrypted).iv])
             ELSE None,
     store |-> r.store, threw |-> r.threw]

Present(st) == {i \in DOMAIN st.ents : st.ents[i] # None}

StampOf(st, i) == Val(st.ents[i]).stamp

\* InMemoryKeyCache.evictIfNeeded: drop the first `excess` keys of the Map.
evictMemory_newest(cfg, st) ==
    IF cfg.maxEntries = None \/ Len(st.order) <= Val(cfg.maxEntries) THEN {st}
    ELSE LET kept == Val(cfg.maxEntries)
             gone == {st.order[i] : i \in (kept + 1)..Len(st.order)}
         IN {[ents |-> [i \in DOMAIN st.ents |->
                          IF i \in gone THEN None ELSE st.ents[i]],
              order |-> SubSeq(st.order, 1, kept)]}
evictMemory(cfg, st) ==
    IF cfg.maxEntries = None \/ Len(st.order) <= Val(cfg.maxEntries) THEN {st}
    ELSE LET excess == Len(st.order) - Val(cfg.maxEntries)
             gone == {st.order[i] : i \in 1..excess}
         IN {[ents |-> [i \in DOMAIN st.ents |->
                          IF i \in gone THEN None ELSE st.ents[i]],
              order |-> SubSeq(st.order, excess + 1, Len(st.order))]}

\* The sets of `excess` oldest ids among `present`: a stable sort by mtimeMs /
\* updatedAt over the enumeration order of readdir / storage.key(i), which
\* the platform chooses, puts one of them first.
Oldest_short(st, present, excess) ==
    {g \in SUBSET present :
        /\ Cardinality(g) = excess - 1
        /\ \A x \in g : \A y \in present \ g : StampOf(st, x) <= StampOf(st, y)}
Oldest(st, present, excess) ==
    {g \in SUBSET present :
        /\ Cardinality(g) = excess
        /\ \A x \in g : \A y \in present \ g : StampOf(st, x) <= StampOf(st, y)}

\* StorageKeyCache.evictIfNeeded parses every slot it scans and removes the
\* ones JSON.parse (or the read of updatedAt) throws on; FsKeyCache only
\* stats the files.
Scanned(cfg, st) ==
    IF cfg.backend = "storage"
    THEN [st EXCEPT !.ents = [i \in DOMAIN st.ents |->
                                IF st.ents[i] # None /\ Val(st.ents[i]).raw # "record"
                                THEN None ELSE st.ents[i]]]
    ELSE st

\* FsKeyCache / StorageKeyCache.evictIfNeeded: sort by mtimeMs / updatedAt
\* and remove the first `excess`.
evictStamped(cfg, st) ==
    IF cfg.maxEntries = None \/ Cardinality(Present(st)) <= Val(cfg.maxEntries)
    THEN {st}
    ELSE LET scanned == Scanned(cfg, st)
             present == Present(scanned)
         IN IF Cardinality(present) <= Val(cfg.maxEntries) THEN {scanned}
            ELSE {[scanned EXCEPT !.ents = [i \in DOMAIN scanned.ents |->
                                     IF i \in gone THEN None ELSE scanned.ents[i]]] :
                    gone \in Oldest(scanned, present,
                                    Cardinality(present) - Val(cfg.maxEntries))}

evictIfNeeded(cfg, st) ==
    IF cfg.backend = "memory" THEN evictMemory(cfg, st) ELSE evictStamped(cfg, st)

\* storeEntry / ensureEntry: put the entry back under id.  A new id goes to
\* the end of the memory Map; a file or storage slot gets the time of the
\* write as its recency.
storeEntry(cfg, now, st, id, entry) ==
    [ents |-> [st.ents EXCEPT ![id] =
                 Some([entry EXCEPT !.stamp =
                         IF cfg.backend = "memory" THEN 0 ELSE now])],
     order |-> IF cfg.backend = "memory" /\ st.ents[id] = None
               THEN Append(st.order, id) ELSE st.order]

EmptyEntry ==
    [decrypted |-> None, encrypted |-> None, stamp |-> 0, raw |-> "record"]

\* The two slots persistDecryptedKey writes: the decrypted context and the
\* encrypted slot derived from header, with one expiry.
decryptedSlots_swapped(entry, key, iv, header, expiresAt) ==
    [entry EXCEPT
       !.decrypted = Some([key |-> key, iv |-> iv, header |-> header,
                           expiresAt |-> expiresAt]),
       !.encrypted = Some([key |-> header.iv, iv |-> header.key,
                           expiresAt |-> expiresAt])]
decryptedSlots_once(entry, key, iv, header, expiresAt) ==
    [entry EXCEPT
       !.decrypted = IF @ # None THEN None
                     ELSE Some([key |-> key, iv |-> iv, header |-> header,
                                expiresAt |-> expiresAt]),
       !.encrypted = Some([key |-> header.key, iv |-> header.iv,
                           expiresAt |-> expiresAt])]
decryptedSlots(entry, key, iv, header, expiresAt) ==
    [entry EXCEPT
       !.decrypted = Some([key |-> key, iv |-> iv, header |-> header,
                           expiresAt |-> expiresAt]),
       !.encrypted = Some([key |-> header.key, iv |-> header.iv,
                           expiresAt |-> expiresAt])]

\* The slot persistEncryptedKey writes.
encryptedSlot(entry, key, iv, expiresAt) ==
    [entry EXCEPT
       !.encrypted = Some([key |-> key, iv |-> iv, expiresAt |-> expiresAt])]

\* persistDecryptedKey(id, key, iv, header): the stores it can leave, with
\* the entry as written before the capacity pass; a readEntry that throws
\* rejects the call before anything is written.
persistDecryptedKey(cfg, now, st, id, key, iv, header) ==
    LET r == readEntry(cfg, now, st, id)
        base == IF r.entry = None THEN EmptyEntry ELSE Val(r.entry)
        entry == decryptedSlots(base, key, iv, header, computeExpiry(cfg, now))
        written == storeEntry(cfg, now, r.store, id, entry)
    IN IF r.threw THEN {[store |-> st, written |-> None, threw |-> TRUE]}
       ELSE {[store |-> s, written |-> written.ents[id], threw |-> FALSE] :
               s \in evictIfNeeded(cfg, written)}

\* persistEncryptedKey(id, key, iv).
persistEncryptedKey(cfg, now, st, id, key, iv) ==
    LET r == readEntry(cfg, now, st, id)
        base == IF r.entry = None THEN EmptyEntry ELSE Val(r.entry)
        entry == encryptedSlot(base, key, iv, computeExpiry(cfg, now))
        written == storeEntry(cfg, now, r.store, id, entry)
    IN IF r.threw THEN {[store |-> st, written |-> None, threw |-> TRUE]}
       ELSE {[store |-> s, written |-> written.ents[id], threw |-> FALSE] :
               s \in evictIfNeeded(cfg, written)}

\* persistDecryptedKey(id, key, iv, header) and persistEncryptedKey(id,
\* header.key, header.iv) started one after the other without awaiting the
\* first, on a backend whose persist awaits readEntry before it writes: both
\* calls read the entry before either writes, each sets its slots on its own
\* copy, and the write of persistEncryptedKey lands last.  A readEntry that
\* throws rejects both calls.
persistOverlapped(cfg, now, st, id, key, iv, header) ==
    LET rd == readEntry(cfg, now, st, id)
        re == readEntry(cfg, now, rd.store, id)
        based == IF rd.entry = None THEN EmptyEntry ELSE Val(rd.entry)
        basee == IF re.entry = None THEN EmptyEntry ELSE Val(re.entry)
        expiresAt == computeExpiry(cfg, now)
        wd == storeEntry(cfg, now, re.store, id,
                         decryptedSlots(based, key, iv, header, expiresAt))
        we == storeEntry(cfg, now, wd, id,
                         encryptedSlot(basee, header.key, header.iv, expiresAt))
    IN IF rd.threw THEN {st} ELSE evictIfNeeded(cfg, we)

(***************************************************************************)
(* SpecCache: one key cache instance, any backend and any configuration.   *)
(***************************************************************************)
\* Material of the key-cache specification: a context c has the raw key and
\* iv (base64 text) and the wrapped header.
RawKey(c) == <<"key", c>>
RawIv(c) == <<"iv", c>>
Header(c) == [key |-> <<"wrapped-key", c>>, iv |-> <<"wrapped-iv", c>>]

\* cacheLast: the operation that has just completed (none once time has
\* passed; "rejected" when the call threw): the call, its id and material,
\* the entry of id before it (pre), the store before it (before), the entry
\* as written before the capacity pass (written), and what a read returned.
NoCacheOp == [op |-> "none", call |-> "", id |-> "", pre |-> None,
              before |-> None, written |-> None, res |-> None, arg |-> 0,
              tie |-> FALSE]

\* The key-cache operations a KeyCache may implement.
CacheOpNames == {"getDecryptedKey", "getEncryptedKey",
                 "persistDecryptedKey", "persistEncryptedKey"}
AllWork == [o \in CacheOpNames |-> "works"]

\* The callers of the filesystem cache whose calls may overlap, and a caller
\* with no call in flight.
Procs == {1, 2}
IdleCall == [pc |-> "idle", op |-> "", id |-> "", entry |-> None, dir |-> {},
             stat |-> <<>>, victims |-> {}, met |-> FALSE, waited |-> FALSE]
Idle == \A p \in Procs : calls[p].pc = "idle"

\* The cache directory of an FsKeyCache: the mkdir calls the instance has
\* issued, whether the promise directoryReady is pending, fulfilled ("done")
\* or rejected ("failed"), and whether a call of this.fs on the cache's files
\* was issued while it was pending.  New: the constructor has just run;
\* Created: the directory exists (for the other backends there is none).
New == [mkdirs |-> 1, ready |-> "pending", early |-> FALSE]
Created == [mkdirs |-> IF backend = "fs" THEN 1 ELSE 0, ready |-> "done",
            early |-> FALSE]

\* await this.directoryReady: the caller continues once the promise has
\* settled.
directoryReady_unawaited(d) == TRUE
directoryReady(d) == d.ready # "pending"

\* A call of this.fs.readFile / writeFile / readdir / stat / unlink.
fsCall(d) == [d EXCEPT !.early = @ \/ d.ready = "pending"]

\* A public operation of the cache run as one step: on the filesystem
\* backend it is past directoryReady, which has fulfilled.
DirectoryExists == backend = "fs" => directory.ready = "done"

\* The ObjectManager operations in flight.
Tasks == {1, 2}
NoFlight ==
    [pc |-> "idle", op |-> "", id |-> 0, since |-> 0, missed |-> FALSE,
     held |-> None, enc |-> None, context |-> None,
     slots |-> [d |-> "", e |-> ""], entry |-> [d |-> None, e |-> None],
     ok |-> FALSE, err |-> "", val |-> <<>>]
NoFlights == [t \in Tasks |-> NoFlight]

CacheInit ==
    /\ backend \in {"memory", "fs", "storage"}
    /\ ttlMs \in {None} \cup {Some(t) : t \in 0..MaxTtl}
    /\ maxEntries \in {None} \cup {Some(n) : n \in 0..MaxCap}
    /\ clock = 0
    /\ store = [ents |-> [i \in CacheIds |-> None], order |-> <<>>]
    /\ cacheLast = NoCacheOp
    /\ objectCache = <<>>
    /\ keyResponseCache = <<>>
    /\ relatedObjectsCache = <<>>
    /\ remote = <<>>
    /\ symCounter = 0
    /\ opCount = 0
    /\ last = <<>>
    /\ roster = <<>>
    /\ cacheOps = AllWork
    /\ session = 0
    /\ landsLast = "encrypted"
    /\ calls = [p \in Procs |-> IdleCall]
    /\ directory = Created
    /\ flights = NoFlights

\* Another stored entry carries the recency stamp this write gets.
StampTie(st, id, now) ==
    \E j \in Present(st) : j # id /\ StampOf(st, j) = now

CachePersistDecrypted(id, c) ==
    \E o \in persistDecryptedKey(Config, clock, store, id,
                                 RawKey(c), RawIv(c), Header(c)) :
        /\ Idle
        /\ DirectoryExists
        /\ store' = o.store
        /\ cacheLast' = [op |-> IF o.threw THEN "rejected" ELSE "persistDecryptedKey",
                         call |-> "persistDecryptedKey", id |-> id,
                         pre |-> store.ents[id], before |-> Some(store),
                         written |-> o.written, res |-> None, arg |-> c,
                         tie |-> StampTie(store, id, clock)]
        /\ UNCHANGED <<backend, ttlMs, maxEntries, clock, managerVars, calls>>

CachePersistEncrypted(id, c) ==
    \E o \in persistEncryptedKey(Config, clock, store, id,
                                 Header(c).key, Header(c).iv) :
        /\ Idle
        /\ DirectoryExists
        /\ store' = o.store
        /\ cacheLast' = [op |-> IF o.threw THEN "rejected" ELSE "persistEncryptedKey",
                         call |-> "persistEncryptedKey", id |-> id,
                         pre |-> store.ents[id], before |-> Some(store),
                         written |-> o.written, res |-> None, arg |-> c,
                         tie |-> StampTie(store, id, clock)]
        /\ UNCHANGED <<backend, ttlMs, maxEntries, clock, managerVars, calls>>

CacheGetDecrypted(id) ==
    LET r == getDecryptedKey(Config, clock, store, id) IN
        /\ Idle
        /\ DirectoryExists
        /\ store' = r.store
        /\ cacheLast' = [op |-> IF r.threw THEN "rejected" ELSE "getDecryptedKey",
                         call |-> "getDecryptedKey", id |-> id,
                         pre |-> store.ents[id], before |-> Some(store),
                         written |-> None, res |-> r.res, arg |-> 0,
                         tie |-> FALSE]
        /\ UNCHANGED <<backend, ttlMs, maxEntries, clock, managerVars, calls>>

CacheGetEncrypted(id) ==
    LET r == getEncryptedKey(Config, clock, store, id) IN
        /\ Idle
        /\ DirectoryExists
        /\ store' = r.store
        /\ cacheLast' = [op |-> IF r.threw THEN "rejected" ELSE "getEncryptedKey",
                         call |-> "getEncryptedKey", id |-> id,
                         pre |-> store.ents[id], before |-> Some(store),
                         written |-> None, res |-> r.res, arg |-> 0,
                         tie |-> FALSE]
        /\ UNCHANGED <<backend, ttlMs, maxEntries, clock, managerVars, calls>>

\* Time passes between two operations.
Tick ==
    /\ clock < MaxTime
    /\ clock' = clock + 1
    /\ cacheLast' = NoCacheOp
    /\ UNCHANGED <<backend, ttlMs, maxEntries, store, managerVars, calls>>

CacheNext ==
    \/ \E id \in DOMAIN store.ents, c \in Materials : CachePersistDecrypted(id, c)
    \/ \E id \in DOMAIN store.ents, c \in Materials : CachePersistEncrypted(id, c)
    \/ \E id \in DOMAIN store.ents : CacheGetDecrypted(id)
    \/ \E id \in DOMAIN store.ents : CacheGetEncrypted(id)
    \/ Tick

SpecCache == CacheInit /\ [][CacheNext]_vars

(***************************************************************************)
(* Claims about the key cache (checked under SpecCache).                   *)
(***************************************************************************)
CacheReads == {"getDecryptedKey", "getEncryptedKey"}
CachePersists == {"persistDecryptedKey", "persistEncryptedKey"}

\* What getEncryptedKey(id) returns when called now, right after cacheLast.
EncryptedNow == getEncryptedKey(Config, clock, store, cacheLast.id).res

HeaderPair(c) == Some([key |-> Header(c).key, iv |-> Header(c).iv])

\* C8 (as claimed): in every backend and for every ttlMs and maxEntries, once
\* persistDecryptedKey(id, k, iv, header) has completed, an immediately
\* following getEncryptedKey(id) returns {key: header.key, iv: header.iv}.
C8_CoherenceEveryConfig ==
    cacheLast.op = "persistDecryptedKey" =>
        EncryptedNow = HeaderPair(cacheLast.arg)

\* C8 (amended): the same holds when maxEntries is not configured, on the
\* memory backend when maxEntries >= 1, and on the fs and storage backends when
\* maxEntries >= 1 and no other stored entry carries the recency stamp of this
\* write; with maxEntries = 0 the entry just written is evicted by the same
\* call and getEncryptedKey(id) returns absent.
C8_CoherenceUnlessEvicted ==
    cacheLast.op = "persistDecryptedKey" =>
        /\ ( \/ maxEntries = None
             \/ /\ Val(maxEntries) >= 1
                /\ (backend = "memory" \/ ~cacheLast.tie) )
           => EncryptedNow = HeaderPair(cacheLast.arg)
        /\ maxEntries = Some(0) => EncryptedNow = None

\* C8 witness: a persistDecryptedKey over an existing entry of id has completed
\* on a capacity-bound, expiring cache that holds it, while the other id is
\* stored too or was just dropped.
C8_Witness ==
    /\ cacheLast.op = "persistDecryptedKey"
    /\ maxEntries = Some(1)
    /\ ttlMs = Some(1)
    /\ backend = "storage"
    /\ cacheLast.pre # None
    /\ clock > 0
    /\ EncryptedNow = HeaderPair(cacheLast.arg)

\* The claim's own reading of expiry: a slot is expired at `now` when its
\* expiry is stamped and not later than `now`.
SlotLapsed(slot) ==
    slot # None /\ Val(slot).expiresAt # None /\ Val(Val(slot).expiresAt) <= clock
SlotValid(slot) == slot # None /\ ~SlotLapsed(slot)

PairOf(slot) == Some([key |-> Val(slot).key, iv |-> Val(slot).iv])
ContextOf(slot) ==
    Some([header |-> Val(slot).header, key |-> Val(slot).key, iv |-> Val(slot).iv])

\* C9: a read of id at a time when exactly one of its two slots has expired
\* returns absent for the expired slot, removes only that slot and leaves the
\* sibling's value and expiry unchanged; a read removes the whole entry only
\* when both slots are expired or missing.
C9_IndependentExpiry ==
    (cacheLast.op \in CacheReads /\ cacheLast.pre # None) =>
        LET pre == Val(cacheLast.pre)
            post == store.ents[cacheLast.id]
        IN /\ (SlotLapsed(pre.decrypted) /\ SlotValid(pre.encrypted)) =>
                /\ post # None
                /\ Val(post).decrypted = None
                /\ Val(post).encrypted = pre.encrypted
                /\ cacheLast.op = "getDecryptedKey" => cacheLast.res = None
                /\ cacheLast.op = "getEncryptedKey" =>
                       cacheLast.res = PairOf(pre.encrypted)
           /\ (SlotLapsed(pre.encrypted) /\ SlotValid(pre.decrypted)) =>
                /\ post # None
                /\ Val(post).encrypted = None
                /\ Val(post).decrypted = pre.decrypted
                /\ cacheLast.op = "getEncryptedKey" => cacheLast.res = None
                /\ cacheLast.op = "getDecryptedKey" =>
                       cacheLast.res = ContextOf(pre.decrypted)
           /\ post = None =>
                /\ ~SlotValid(pre.decrypted)
                /\ ~SlotValid(pre.encrypted)

\* C9 witness: a read has found the decrypted slot expired and the encrypted
\* slot still valid.
C9_Witness ==
    /\ cacheLast.op \in CacheReads
    /\ cacheLast.pre # None
    /\ SlotLapsed(Val(cacheLast.pre).decrypted)
    /\ SlotValid(Val(cacheLast.pre).encrypted)
    /\ store.ents[cacheLast.id] # None

\* C10 (as claimed): every persist stamps the slots it writes with expiry =
\* time of the write + ttlMs for every configured ttlMs, 0 included; a slot is
\* absent to every read at a time >= its expiry; slots never expire only when
\* no ttlMs is configured.
C10_TtlStamping ==
    /\ cacheLast.op \in CachePersists =>
         LET w == Val(cacheLast.written)
             expiry == IF ttlMs = None THEN None ELSE Some(clock + Val(ttlMs))
         IN /\ Val(w.encrypted).expiresAt = expiry
            /\ cacheLast.op = "persistDecryptedKey" =>
                   Val(w.decrypted).expiresAt = expiry
    /\ (cacheLast.op = "getDecryptedKey" /\ cacheLast.pre # None
          /\ SlotLapsed(Val(cacheLast.pre).decrypted)) => cacheLast.res = None
    /\ (cacheLast.op = "getEncryptedKey" /\ cacheLast.pre # None
          /\ SlotLapsed(Val(cacheLast.pre).encrypted)) => cacheLast.res = None

(***************************************************************************)
(* SpecCorrupt: a filesystem or storage cache whose persisted records can   *)
(* be overwritten with text that is not a cache record.                    *)
(***************************************************************************)
CorruptKinds == {"malformed", "null"}

\* Something other than the cache leaves undeserializable text in the file
\* or storage slot of id.
Corrupt(id, kind) ==
    /\ backend \in {"fs", "storage"}
    /\ Idle
    /\ store' = [store EXCEPT !.ents[id] =
                   Some([EmptyEntry EXCEPT !.raw = kind, !.stamp = clock])]
    /\ cacheLast' = [NoCacheOp EXCEPT !.op = "corrupt", !.id = id]
    /\ UNCHANGED <<backend, ttlMs, maxEntries, clock, managerVars, calls>>

CorruptInit ==
    /\ backend \in {"fs", "storage"}
    /\ ttlMs \in {None, Some(1)}
    /\ maxEntries \in {None, Some(1)}
    /\ clock = 0
    /\ store = [ents |-> [i \in CacheIds |-> None], order |-> <<>>]
    /\ cacheLast = NoCacheOp
    /\ objectCache = <<>>
    /\ keyResponseCache = <<>>
    /\ relatedObjectsCache = <<>>
    /\ remote = <<>>
    /\ symCounter = 0
    /\ opCount = 0
    /\ last = <<>>
    /\ roster = <<>>
    /\ cacheOps = AllWork
    /\ session = 0
    /\ landsLast = "encrypted"
    /\ calls = [p \in Procs |-> IdleCall]
    /\ directory = Created
    /\ flights = NoFlights

CorruptNext ==
    \/ CacheNext
    \/ \E id \in DOMAIN store.ents, kind \in CorruptKinds : Corrupt(id, kind)

SpecCorrupt == CorruptInit /\ [][CorruptNext]_vars

\* The ids whose persisted record is not a cache record.
Undeserializable(st) ==
    {i \in Present(st) : Val(st.ents[i]).raw # "record"}

\* C13: in the filesystem and storage backends, when the persisted record of
\* id is malformed JSON or JSON that is not a record object (null), each of
\* the four operations on id completes without an error, deletes the record
\* and proceeds as on a miss (a read returns absent, a persist writes only
\* its own slots), and a storage eviction pass that scans such a record
\* deletes it.
C13_CorruptionTolerance ==
    /\ (cacheLast.call \in CacheOpNames /\ cacheLast.pre # None
          /\ Val(cacheLast.pre).raw # "record") =>
         /\ cacheLast.op # "rejected"
         /\ cacheLast.op \in CacheReads =>
              cacheLast.res = None /\ store.ents[cacheLast.id] = None
         /\ cacheLast.op = "persistEncryptedKey" =>
              /\ Val(cacheLast.written).raw = "record"
              /\ Val(cacheLast.written).decrypted = None
         /\ cacheLast.op = "persistDecryptedKey" =>
              Val(cacheLast.written).raw = "record"
    /\ (cacheLast.op \in CachePersists /\ backend = "storage"
          /\ maxEntries # None
          /\ Cardinality(Present(Val(cacheLast.before)) \cup {cacheLast.id})
               > Val(maxEntries)) =>
         Undeserializable(store) = {}

(***************************************************************************)
(* SpecShared: several cache instances, configured with different ttlMs,    *)
(* over one directory (FsKeyCache) or one storage and prefix                *)
(* (StorageKeyCache).  ttlMs is the option of the instance that makes the   *)
(* next call.                                                              *)
(***************************************************************************)
SharedTtls == {None} \cup {Some(t) : t \in 1..MaxTtl}

\* The next call goes through an instance configured with ttlMs = t.
Switch(t) ==
    /\ t # ttlMs
    /\ Idle
    /\ ttlMs' = t
    /\ cacheLast' = NoCacheOp
    /\ UNCHANGED <<backend, maxEntries, clock, store, managerVars, calls>>

SharedInit ==
    /\ backend \in {"fs", "storage"}
    /\ ttlMs \in SharedTtls
    /\ maxEntries = None
    /\ clock = 0
    /\ store = [ents |-> [i \in CacheIds |-> None], order |-> <<>>]
    /\ cacheLast = NoCacheOp
    /\ objectCache = <<>>
    /\ keyResponseCache = <<>>
    /\ relatedObjectsCache = <<>>
    /\ remote = <<>>
    /\ symCounter = 0
    /\ opCount = 0
    /\ last = <<>>
    /\ roster = <<>>
    /\ cacheOps = AllWork
    /\ session = 0
    /\ landsLast = "encrypted"
    /\ calls = [p \in Procs |-> IdleCall]
    /\ directory = Created
    /\ flights = NoFlights

SharedNext ==
    \/ \E id \in DOMAIN store.ents : CachePersistDecrypted(id, 1)
    \/ \E id \in DOMAIN store.ents : CachePersistEncrypted(id, 1)
    \/ \E id \in DOMAIN store.ents : CacheGetDecrypted(id)
    \/ \E id \in DOMAIN store.ents : CacheGetEncrypted(id)
    \/ Tick
    \/ \E t \in SharedTtls : Switch(t)

SpecShared == SharedInit /\ [][SharedNext]_vars

\* C27 (specification SpecShared): in every reachable state, with one cache
\* instance or several instances of different ttlMs over one persistent
\* store, whenever getDecryptedKey(id) would return a record,
\* getEncryptedKey(id) returns one too.
C27_EncryptedNeverStaler ==
    \A id \in DOMAIN store.ents :
        getDecryptedKey(Config, clock, store, id).res # None =>
            getEncryptedKey(Config, clock, store, id).res # None

(***************************************************************************)
(* SpecOverlap: a capacity-bound cache that is only written.  On the        *)
(* filesystem backend two callers may have a persist call in flight at     *)
(* once; a call then advances one awaited file-system operation at a time: *)
(* readEntry, storeEntry (writeFile), and the capacity pass: readdir, the  *)
(* stats, and one unlink per victim.                                       *)
(* SpecWrites: a capacity-bound cache filled by one writer, one call after *)
(* the other.                                                              *)
(***************************************************************************)
\* The persist call of p settles: fulfilled, or rejected by readEntry.
Settled(p, rejected) ==
    /\ calls' = [calls EXCEPT ![p] = IdleCall]
    /\ cacheLast' = [NoCacheOp EXCEPT
                       !.op = IF rejected THEN "rejected" ELSE "settled",
                       !.call = calls[p].op, !.id = calls[p].id,
                       !.tie = calls[p].met]

\* p calls persistDecryptedKey / persistEncryptedKey(id, ...); the calls in
\* flight now overlap with it.
FsBegin(p, op, id) ==
    /\ backend = "fs"
    /\ calls[p].pc = "idle"
    /\ calls' = [q \in Procs |->
                   IF q = p
                   THEN [IdleCall EXCEPT !.pc = "readEntry", !.op = op, !.id = id,
                                         !.met = ~Idle,
                                         !.waited = directory.ready = "pending"]
                   ELSE [calls[q] EXCEPT !.met = @ \/ calls[q].pc # "idle"]]
    /\ cacheLast' = NoCacheOp
    /\ UNCHANGED <<backend, ttlMs, maxEntries, clock, store, managerVars>>

\* Everything of the manager but the cache directory.
directoryFrame == <<objectCache, keyResponseCache, relatedObjectsCache, remote,
                    symCounter, opCount, last, roster, cacheOps, session,
                    landsLast, flights>>

\* The outcome of this.fs.mkdir arrives: directoryReady settles.
FsMkdir(outcome) ==
    /\ backend = "fs"
    /\ directory.ready = "pending"
    /\ directory' = [directory EXCEPT !.ready = outcome]
    /\ cacheLast' = NoCacheOp
    /\ UNCHANGED <<backend, ttlMs, maxEntries, clock, store, calls,
                   directoryFrame>>

\* readEntry with a directoryReady that rejected: the call rejects before
\* any file is read.
FsNoDirectory(p) ==
    /\ calls[p].pc = "readEntry"
    /\ directoryReady(directory)
    /\ directory.ready = "failed"
    /\ Settled(p, TRUE)
    /\ UNCHANGED <<backend, ttlMs, maxEntries, clock, store, directory,
                   directoryFrame>>

\* const entry = (await this.readEntry(id)) ?? {}; the slots are set on it.
FsReadEntry(p) ==
    /\ calls[p].pc = "readEntry"
    /\ directoryReady(directory)
    /\ directory.ready # "failed"
    /\ directory' = fsCall(directory)
    /\ LET c == calls[p]
           r == readEntry(Config, clock, store, c.id)
           base == IF r.entry = None THEN EmptyEntry ELSE Val(r.entry)
           expiresAt == computeExpiry(Config, clock)
           entry == IF c.op = "persistDecryptedKey"
                    THEN decryptedSlots(base, RawKey(1), RawIv(1), Header(1),
                                        expiresAt)
                    ELSE encryptedSlot(base, Header(1).key, Header(1).iv,
                                       expiresAt)
       IN /\ store' = r.store
          /\ IF r.threw THEN Settled(p, TRUE)
             ELSE /\ calls' = [calls EXCEPT ![p].pc = "storeEntry",
                                            ![p].entry = Some(entry)]
                  /\ cacheLast' = NoCacheOp
    /\ UNCHANGED <<backend, ttlMs, maxEntries, clock, directoryFrame>>

\* await this.storeEntry(id, entry); evictIfNeeded returns at once when no
\* maxEntries is configured.
FsStoreEntry(p) ==
    /\ calls[p].pc = "storeEntry"
    /\ directoryReady(directory)
    /\ directory' = fsCall(directory)
    /\ store' = storeEntry(Config, clock, store, calls[p].id, Val(calls[p].entry))
    /\ IF maxEntries = None THEN Settled(p, FALSE)
       ELSE /\ calls' = [calls EXCEPT ![p].pc = "readdir"]
            /\ cacheLast' = NoCacheOp
    /\ UNCHANGED <<backend, ttlMs, maxEntries, clock, directoryFrame>>

\* evictIfNeeded: readdir and the first length check.
FsReaddir(p) ==
    /\ calls[p].pc = "readdir"
    /\ directoryReady(directory)
    /\ directory' = fsCall(directory)
    /\ IF Cardinality(Present(store)) <= Val(maxEntries) THEN Settled(p, FALSE)
       ELSE /\ calls' = [calls EXCEPT ![p].pc = "stat", ![p].dir = Present(store)]
            /\ cacheLast' = NoCacheOp
    /\ UNCHANGED <<backend, ttlMs, maxEntries, clock, store, directoryFrame>>

\* evictIfNeeded: the stats (a file unlinked since readdir drops out), the
\* second length check, and the sort that picks the victims.
FsStat(p) ==
    /\ calls[p].pc = "stat"
    /\ directory' = fsCall(directory)
    /\ LET existing == calls[p].dir \cap Present(store) IN
       IF Cardinality(existing) <= Val(maxEntries) THEN Settled(p, FALSE)
       ELSE \E gone \in Oldest(store, existing,
                               Cardinality(existing) - Val(maxEntries)) :
              /\ calls' = [calls EXCEPT
                             ![p].pc = "unlink", ![p].victims = gone,
                             ![p].stat = [i \in gone |-> StampOf(store, i)]]
              /\ cacheLast' = NoCacheOp
    /\ UNCHANGED <<backend, ttlMs, maxEntries, clock, store, directoryFrame>>

\* evictIfNeeded: await this.safeUnlink(existing[index].path), oldest first.
FsUnlink(p) ==
    /\ calls[p].pc = "unlink"
    /\ directory' = fsCall(directory)
    /\ \E x \in calls[p].victims :
         /\ \A y \in calls[p].victims : calls[p].stat[x] <= calls[p].stat[y]
         /\ store' = RemoveId(store, x)
         /\ IF calls[p].victims = {x} THEN Settled(p, FALSE)
            ELSE /\ calls' = [calls EXCEPT ![p].victims = @ \ {x}]
                 /\ cacheLast' = NoCacheOp
    /\ UNCHANGED <<backend, ttlMs, maxEntries, clock, directoryFrame>>

OverlapInit ==
    /\ backend \in {"memory", "fs", "storage"}
    /\ ttlMs \in {None, Some(1)}
    /\ maxEntries \in {Some(n) : n \in 0..MaxCap}
    /\ clock = 0
    /\ store = [ents |-> [i \in CacheIds |-> None], order |-> <<>>]
    /\ cacheLast = NoCacheOp
    /\ objectCache = <<>>
    /\ keyResponseCache = <<>>
    /\ relatedObjectsCache = <<>>
    /\ remote = <<>>
    /\ symCounter = 0
    /\ opCount = 0
    /\ last = <<>>
    /\ roster = <<>>
    /\ cacheOps = AllWork
    /\ session = 0
    /\ landsLast = "encrypted"
    /\ calls = [p \in Procs |-> IdleCall]
    /\ directory = IF backend = "fs" THEN New ELSE Created
    /\ flights = NoFlights

WritesNext ==
    \/ \E id \in DOMAIN store.ents : CachePersistDecrypted(id, 1)
    \/ \E id \in DOMAIN store.ents : CachePersistEncrypted(id, 1)
    \/ Tick

OverlapNext ==
    \/ WritesNext
    \/ \E p \in Procs, op \in CachePersists, id \in DOMAIN store.ents :
          FsBegin(p, op, id)
    \/ \E outcome \in {"done", "failed"} : FsMkdir(outcome)
    \/ \E p \in Procs : FsNoDirectory(p)
    \/ \E p \in Procs : FsReadEntry(p)
    \/ \E p \in Procs : FsStoreEntry(p)
    \/ \E p \in Procs : FsReaddir(p)
    \/ \E p \in Procs : FsStat(p)
    \/ \E p \in Procs : FsUnlink(p)

SpecOverlap == OverlapInit /\ [][OverlapNext]_vars

WritesInit ==
    /\ backend \in {"memory", "fs", "storage"}
    /\ ttlMs = None
    /\ maxEntries \in {Some(n) : n \in 0..MaxFill}
    /\ clock = 0
    /\ store = [ents |-> [i \in WriteIds |-> None], order |-> <<>>]
    /\ cacheLast = NoCacheOp
    /\ objectCache = <<>>
    /\ keyResponseCache = <<>>
    /\ relatedObjectsCache = <<>>
    /\ remote = <<>>
    /\ symCounter = 0
    /\ opCount = 0
    /\ last = <<>>
    /\ roster = <<>>
    /\ cacheOps = AllWork
    /\ session = 0
    /\ landsLast = "encrypted"
    /\ calls = [p \in Procs |-> IdleCall]
    /\ directory = Created
    /\ flights = NoFlights

SpecWrites == WritesInit /\ [][WritesNext]_vars

OverflowingWrite ==
    /\ cacheLast.op \in CachePersists
    /\ cacheLast.before # None
    /\ maxEntries # None
    /\ cacheLast.pre = None
    /\ Cardinality(Present(Val(cacheLast.before))) = Val(maxEntries)

\* The ids the write dropped.
Dropped == (Present(Val(cacheLast.before)) \cup {cacheLast.id}) \ Present(store)

\* x is the least recently written id before the write: first inserted
\* (memory), smallest updatedAt (storage), oldest modification time (fs).
LeastRecent(x) ==
    /\ x \in Present(Val(cacheLast.before))
    /\ IF backend = "memory" THEN x = Val(cacheLast.before).order[1]
       ELSE \A y \in Present(Val(cacheLast.before)) :
               StampOf(Val(cacheLast.before), x) <= StampOf(Val(cacheLast.before), y)

\* C12 (as claimed): with maxEntries = N and no expiry, the write of the
\* N+1st distinct id leaves exactly N ids, the single id dropped is the least
\* recently written one, and the id written last is never dropped.
C12_EvictionBoundary ==
    OverflowingWrite =>
        /\ Cardinality(Present(store)) = Val(maxEntries)
        /\ Cardinality(Dropped) = 1
        /\ \A x \in Dropped : LeastRecent(x)
        /\ cacheLast.id \in Present(store)

\* C12 (amended): exactly N ids are left and one id is dropped in every case;
\* the id dropped is the least recently written one and the id written last
\* is kept when N >= 1 and, on the fs and storage backends, no stored entry
\* carries the recency stamp of this write; with N = 0 the id written is the
\* one dropped; on a stamp tie the id dropped is one of those with the
\* smallest stamp, which may be the one just written.
C12_EvictionBoundaryNoTie ==
    OverflowingWrite =>
        /\ Cardinality(Present(store)) = Val(maxEntries)
        /\ Cardinality(Dropped) = 1
        /\ (Val(maxEntries) >= 1 /\ (backend = "memory" \/ ~cacheLast.tie)) =>
              /\ \A x \in Dropped : LeastRecent(x)
              /\ cacheLast.id \in Present(store)
        /\ Val(maxEntries) = 0 => Dropped = {cacheLast.id}
        /\ (Val(maxEntries) >= 1 /\ backend # "memory" /\ cacheLast.tie) =>
              \A x \in Dropped : x = cacheLast.id \/ LeastRecent(x)

\* C12 witness: the third distinct id has been written into a storage cache
\* with maxEntries = 2 whose two entries have different stamps, and the
\* older one was dropped.
C12_Witness ==
    /\ OverflowingWrite
    /\ backend = "storage"
    /\ maxEntries = Some(2)
    /\ ~cacheLast.tie
    /\ \E x \in Dropped : \E y \in Present(Val(cacheLast.before)) :
          StampOf(Val(cacheLast.before), x) < StampOf(Val(cacheLast.before), y)
    /\ cacheLast.id \in Present(store)

(***************************************************************************)
(* Crypto capability and transport encodings, as far as the orchestration  *)
(* depends on them.  A piece of key material names its part ("key"/"iv"),  *)
(* the party it is wrapped for ("" when unwrapped), the symmetric key it   *)
(* belongs to, and its encoding: "raw" (a Buffer), "b64", "hex", or "bad"  *)
(* (what a decoder makes of text in the wrong encoding).                   *)
(***************************************************************************)
Piece(part, wrap, sym, enc) ==
    [part |-> part, wrap |-> wrap, sym |-> sym, enc |-> enc]

\* h2b(hex): Buffer.from(hex, "hex").toString("base64")
h2b(x) == [x EXCEPT !.enc = IF x.enc = "hex" THEN "b64" ELSE "bad"]
\* b2h(base64): Buffer.from(base64, "base64").toString("hex")
b2h(x) == [x EXCEPT !.enc = IF x.enc = "b64" THEN "hex" ELSE "bad"]
\* buffer.toString("base64") and Buffer.from(text, "base64")
toBase64(x) == [x EXCEPT !.enc = IF x.enc = "raw" THEN "b64" ELSE "bad"]
fromBase64(x) == [x EXCEPT !.enc = IF x.enc = "b64" THEN "raw" ELSE "bad"]

\* JSON.stringify(payload) as utf-8 bytes, and JSON.parse of such bytes.
Stringify(payload) == <<"json", payload>>
Parse(text) == text[2]

\* The roster refreshRoot / refreshRemotes load: the parties whose private key
\* this process holds, the remote parties, and the configured remote party.
CurrentServers == {"main", "backup"}
RemoteServers == {"telentir"}
RemoteName == "telentir"

\* The names a /server response may spell: two parties, each in lower case
\* and capitalised.  name.toLocaleLowerCase() of each.
Spellings == {"telentir", "Telentir", "acme", "Acme"}
toLocaleLowerCase(name) ==
    CASE name \in {"telentir", "Telentir"} -> "telentir"
      [] name \in {"acme", "Acme"} -> "acme"
      [] OTHER -> name

\* GET /server of the seeded remote store: {current, keys}, keys by name.
SeedServer == [current |-> RemoteName, keys |-> RemoteServers]

\* The manager's roster state: root is set once refreshRoot has stored
\* servers and stores, remotes once refreshRemotes has stored the remote
\* parties (names: the name each RemoteServer was constructed with) and
\* remoteNameValue.  ObjectManager.create loads both.
Unloaded == [root |-> FALSE, remotes |-> FALSE, remoteNameValue |-> "",
             names |-> {}]
Loaded == [root |-> TRUE, remotes |-> TRUE, remoteNameValue |-> RemoteName,
           names |-> RemoteServers]

\* server.createContext(): a fresh symmetric key and iv, wrapped for `party`.
createContext(party, sym) ==
    [header |-> [key |-> Piece("key", party, sym, "b64"),
                 iv |-> Piece("iv", party, sym, "b64")],
     key |-> Piece("key", "", sym, "raw"),
     iv |-> Piece("iv", "", sym, "raw")]

\* CurrentServer.decryptContext(header): unwraps what was wrapped for it.
CanUnwrap(party, header) ==
    /\ header.key.part = "key" /\ header.iv.part = "iv"
    /\ header.key.enc = "b64" /\ header.iv.enc = "b64"
    /\ header.key.wrap = party /\ header.iv.wrap = party
decryptContext(party, header) ==
    [header |-> header,
     key |-> Piece("key", "", header.key.sym, "raw"),
     iv |-> Piece("iv", "", header.iv.sym, "raw")]

\* A context whose key and iv are usable symmetric material.
Usable(context) ==
    /\ context.key.part = "key" /\ context.key.enc = "raw"
    /\ context.iv.part = "iv" /\ context.iv.enc = "raw"
    /\ context.key.wrap = "" /\ context.iv.wrap = ""

\* Server.encrypt(context, bytes): AEAD ciphertext and tag (base64 text).
Cipher(part, context, bytes) ==
    [part |-> part,
     ksym |-> IF Usable(context) THEN context.key.sym ELSE 0,
     isym |-> IF Usable(context) THEN context.iv.sym ELSE 0,
     pt |-> bytes, enc |-> "b64"]
ServerEncrypt(context, bytes) ==
    [content |-> Cipher("content", context, bytes),
     authTag |-> Cipher("tag", context, bytes)]

\* Server.decrypt(context, {authTag, content}) authenticates iff the context
\* is the one the ciphertext was made under and the tag belongs to it.
CanDecrypt(context, authTag, content) ==
    /\ Usable(context)
    /\ content.part = "content" /\ authTag.part = "tag"
    /\ content.enc = "b64" /\ authTag.enc = "b64"
    /\ content.ksym = context.key.sym /\ content.isym = context.iv.sym
    /\ authTag.ksym = content.ksym /\ authTag.isym = content.isym
    /\ authTag.pt = content.pt

(***************************************************************************)
(* The world one ObjectManager operation runs in, threaded through the     *)
(* calls it makes: the manager's three maps (oc, kr, rel), its key cache   *)
(* (kc), the remote store (rm), the source of fresh keys (sym) and the     *)
(* requests sent so far by the operation (log).  An operation returns      *)
(* [ok, err, val, w]: a rejected promise is ok = FALSE with the world as   *)
(* the call left it.                                                       *)
(***************************************************************************)
World ==
    [oc |-> objectCache, kr |-> keyResponseCache, rel |-> relatedObjectsCache,
     kc |-> store, rm |-> remote, sym |-> symCounter, log |-> <<>>,
     roster |-> roster, ops |-> cacheOps, race |-> landsLast]

Ok(w, v) == [ok |-> TRUE, err |-> "", val |-> v, w |-> w]
Fail(w, e) == [ok |-> FALSE, err |-> e, val |-> <<>>, w |-> w]
Sent(w, req) == [w EXCEPT !.log = Append(@, req)]

RECURSIVE SortedSeq(_)
SortedSeq(S) ==
    IF S = {} THEN <<>>
    ELSE LET m == CHOOSE x \in S : \A y \in S : x <= y
         IN <<m>> \o SortedSeq(S \ {m})

(***************************************************************************)
(* The remote store: key records, objects, children listings and publish   *)
(* jobs.  A record that does not exist answers 404, which fetch() turns    *)
(* into a thrown error.                                                    *)
(***************************************************************************)
HasObject(w, id) == id \in ObjIds /\ w.rm.objs[id] # None
HasKey(w, id) == id \in KeyIds /\ w.rm.keys[id] # None

\* GET /objects/:id
RemoteGetObject(w, id) ==
    LET w1 == Sent(w, <<"GET", "object", id>>) IN
    IF HasObject(w, id) THEN Ok(w1, Val(w.rm.objs[id])) ELSE Fail(w1, "fetch")

\* GET /keys/:id
RemoteGetKey(w, id) ==
    LET w1 == Sent(w, <<"GET", "key", id>>) IN
    IF HasKey(w, id) THEN Ok(w1, Val(w.rm.keys[id])) ELSE Fail(w1, "fetch")

\* GET /objects/:id/related
RemoteGetRelated(w, id) ==
    LET kids == {i \in ObjIds : /\ w.rm.objs[i] # None
                                /\ Val(w.rm.objs[i]).related_object_id = id}
        ordered == SortedSeq(kids)
    IN Ok(Sent(w, <<"GET", "related", id>>),
          [n \in 1..Len(ordered) |-> Val(w.rm.objs[ordered[n]])])

\* POST /keys {server, key, iv}.  A remote store that has handed out its
\* MaxKeys ids answers with an error status, which fetch() throws on.
RemoteCreateKey(w, server, key, iv) ==
    LET id == w.rm.keyCounter
        rec == [id |-> id, server |-> server, key |-> key, iv |-> iv]
    IN IF id \notin KeyIds THEN Fail(Sent(w, <<"POST", "key", id>>), "fetch")
       ELSE Ok(Sent([w EXCEPT !.rm.keys[id] = Some(rec),
                              !.rm.keyCounter = id + 1],
                    <<"POST", "key", id>>), rec)

\* PATCH /keys/:id {key?, iv?}: body is None (metadata only) or Some(pair).
RemotePatchKey(w, id, body) ==
    LET w1 == Sent(w, <<"PATCH", "key", id>>) IN
    IF ~HasKey(w, id) THEN Fail(w1, "fetch")
    ELSE LET old == Val(w.rm.keys[id])
             rec == IF body = None THEN old
                    ELSE [old EXCEPT !.key = Val(body).key, !.iv = Val(body).iv]
         IN Ok([w1 EXCEPT !.rm.keys[id] = Some(rec)], rec)

\* DELETE /keys/:id
RemoteDeleteKey(w, id) ==
    Ok(Sent([w EXCEPT !.rm.keys[id] = None], <<"DELETE", "key", id>>), <<>>)

\* PUT / POST /objects: related is 0 when the body carries no parent.  A
\* remote store that has handed out its MaxObjects ids answers with an error.
RemoteCreateObject(w, keyId, content, authTag, related) ==
    LET id == w.rm.objectCounter
        rec == [id |-> id, key_id |-> keyId, content |-> content,
                auth_tag |-> authTag, related_object_id |-> related]
    IN IF id \notin ObjIds THEN Fail(Sent(w, <<"CREATE", "object", id>>), "fetch")
       ELSE Ok(Sent([w EXCEPT !.rm.objs[id] = Some(rec),
                              !.rm.objectCounter = id + 1],
                    <<"CREATE", "object", id>>), rec)

\* PATCH /objects/:id: body fields are None when the request leaves them out.
RemotePatchObject(w, id, body) ==
    LET w1 == Sent(w, <<"PATCH", "object", id>>) IN
    IF ~HasObject(w, id) THEN Fail(w1, "fetch")
    ELSE LET old == Val(w.rm.objs[id])
             rec == [id |-> id,
                     key_id |-> IF body.key_id = None THEN old.key_id
                                ELSE Val(body.key_id),
                     content |-> IF body.content = None THEN old.content
                                 ELSE Val(body.content),
                     auth_tag |-> IF body.auth_tag = None THEN old.auth_tag
                                  ELSE Val(body.auth_tag),
                     related_object_id |->
                         IF body.related_object_id = None
                         THEN old.related_object_id
                         ELSE Val(body.related_object_id)]
         IN Ok([w1 EXCEPT !.rm.objs[id] = Some(rec)], rec)

\* DELETE /objects/:id
RemoteDeleteObject(w, id) ==
    Ok(Sent([w EXCEPT !.rm.objs[id] = None], <<"DELETE", "object", id>>), <<>>)

\* PUT /objects/publish/:type/:relatedId {objectId}
RemotePublish(w, relatedId, objectId) ==
    Ok(Sent([w EXCEPT !.rm.jobs = @ \cup {<<relatedId, objectId>>}],
            <<"PUT", "publish", objectId>>), <<>>)

\* DELETE /objects/publish/:type/:relatedId
RemoteUnpublish(w, relatedId) ==
    Ok(Sent([w EXCEPT !.rm.jobs = {j \in @ : j[1] # relatedId}],
            <<"DELETE", "publish", relatedId>>), <<>>)

(***************************************************************************)
(* Sequencing.  Then(r, K) is `const x = await r; K(x)`: a rejected r      *)
(* rejects the whole; With(v, K) is `const x = v; K(x)`.                   *)
(***************************************************************************)
Then(r, K(_)) == IF r.ok THEN K(r) ELSE r
With(v, K(_)) == K(v)

(***************************************************************************)
(* ObjectManager: caches and key resolution.                               *)
(***************************************************************************)
\* this.keyCache?.[op]: a key cache is configured and implements op.
HasOp(w, op) == backend # "none" /\ w.ops[op] # "missing"

\* this.keyCache?.getDecryptedKey?.(id) and getEncryptedKey, on the manager's
\* key cache (none configured, or the getter not implemented: a miss).
KcGetDecrypted(w, id) ==
    IF ~HasOp(w, "getDecryptedKey") THEN [res |-> None, w |-> w]
    ELSE With(getDecryptedKey(Config, clock, w.kc, id),
              LAMBDA r : [res |-> r.res, w |-> [w EXCEPT !.kc = r.store]])

KcGetEncrypted(w, id) ==
    IF ~HasOp(w, "getEncryptedKey") THEN [res |-> None, w |-> w]
    ELSE With(getEncryptedKey(Config, clock, w.kc, id),
              LAMBDA r : [res |-> r.res, w |-> [w EXCEPT !.kc = r.store]])

\* cache.persistDecryptedKey(...) / cache.persistEncryptedKey(...): the call
\* itself.  Calling an operation the cache does not have throws a TypeError;
\* a cache whose persist rejects leaves a rejected promise (noted in the log)
\* and its store as it was.
KcPersistDecrypted(w, id, key, iv, header) ==
    IF ~HasOp(w, "persistDecryptedKey") THEN Fail(w, "TypeError")
    ELSE IF w.ops["persistDecryptedKey"] = "rejects"
    THEN Fail(Sent(w, <<"REJECTED", "persistDecryptedKey", id>>), "cache")
    ELSE Ok([w EXCEPT !.kc =
               (CHOOSE o \in persistDecryptedKey(Config, clock, w.kc, id,
                                                 key, iv, header) : TRUE).store],
            <<>>)

KcPersistEncrypted(w, id, key, iv) ==
    IF ~HasOp(w, "persistEncryptedKey") THEN Fail(w, "TypeError")
    ELSE IF w.ops["persistEncryptedKey"] = "rejects"
    THEN Fail(Sent(w, <<"REJECTED", "persistEncryptedKey", id>>), "cache")
    ELSE Ok([w EXCEPT !.kc =
               (CHOOSE o \in persistEncryptedKey(Config, clock, w.kc, id,
                                                 key, iv) : TRUE).store],
            <<>>)

\* await this.keyCache?.persistEncryptedKey?.(id, key, iv): skipped when the
\* cache or the operation is missing, awaited otherwise.
persistEncryptedIfAny_unguarded(w, id, key, iv) ==
    KcPersistEncrypted(w, id, key, iv)
persistEncryptedIfAny(w, id, key, iv) ==
    IF ~HasOp(w, "persistEncryptedKey") THEN Ok(w, <<>>)
    ELSE KcPersistEncrypted(w, id, key, iv)

\* cacheObjectResponse(object): store the record, drop the relation listing
\* of the object and of its parent.
cacheObjectResponse_keepParent(w, object) ==
    [w EXCEPT !.oc[object.id] = Some(object),
              !.rel[object.id] = None]
cacheObjectResponse(w, object) ==
    [w EXCEPT !.oc[object.id] = Some(object),
              !.rel = [x \in DOMAIN @ |->
                         IF \/ x = object.id
                            \/ /\ object.related_object_id # 0
                               /\ x = object.related_object_id
                         THEN None ELSE @[x]]]

\* cacheKeyResponse(key)
cacheKeyResponse(w, key) == [w EXCEPT !.kr[key.id] = Some(key)]

\* The two persists persistKeyContext starts overlap unless the cache runs
\* each to completion when called (InMemoryKeyCache); of two overlapping
\* calls the write of persistEncryptedKey lands last on a StorageKeyCache
\* (its continuations run in the order of the calls) and in either order on
\* an FsKeyCache.
LostUpdate(w) ==
    /\ \A op \in {"persistDecryptedKey", "persistEncryptedKey"} :
          HasOp(w, op) /\ w.ops[op] = "works"
    /\ \/ backend = "storage"
       \/ backend = "fs" /\ w.race = "encrypted"

\* persistKeyContext as a transaction: when a persist rejects, the key cache
\* is left as it was before the call.
persistKeyContext_rollback(w, keyId, context) ==
    IF backend = "none" THEN w
    ELSE IF \E op \in {"persistDecryptedKey", "persistEncryptedKey"} :
               HasOp(w, op) /\ w.ops[op] = "rejects"
    THEN w
    ELSE With(IF HasOp(w, "persistDecryptedKey")
              THEN KcPersistDecrypted(w, keyId, toBase64(context.key),
                                      toBase64(context.iv), context.header).w
              ELSE w,
              LAMBDA w1 :
                IF HasOp(w1, "persistEncryptedKey")
                THEN KcPersistEncrypted(w1, keyId, context.header.key,
                                        context.header.iv).w
                ELSE w1)

\* persistKeyContext(keyId, context): the persists the cache implements are
\* started, decrypted first, and awaited with Promise.allSettled, which
\* fulfils whatever they do.
persistKeyContext(w, keyId, context) ==
    IF backend = "none" THEN w
    ELSE IF LostUpdate(w)
    THEN [w EXCEPT !.kc =
            CHOOSE s \in persistOverlapped(Config, clock, w.kc, keyId,
                                           toBase64(context.key),
                                           toBase64(context.iv),
                                           context.header) : TRUE]
    ELSE With(IF HasOp(w, "persistDecryptedKey")
              THEN KcPersistDecrypted(w, keyId, toBase64(context.key),
                                      toBase64(context.iv), context.header).w
              ELSE w,
              LAMBDA w1 :
                IF HasOp(w1, "persistEncryptedKey")
                THEN KcPersistEncrypted(w1, keyId, context.header.key,
                                        context.header.iv).w
                ELSE w1)

\* getObject(id)
getObject(w, id) ==
    IF w.oc[id] # None THEN Ok(w, Val(w.oc[id]))
    ELSE Then(RemoteGetObject(w, id),
              LAMBDA f : Ok(cacheObjectResponse(f.w, f.val), f.val))

\* getKey(id): the tail of the call once the key cache has answered (e) and
\* the remote store has answered (f).
cacheFetchedKey_always(key, e, f) ==
    With(IF e.res # None
         THEN [f.val EXCEPT !.key = b2h(Val(e.res).key),
                            !.iv = b2h(Val(e.res).iv)]
         ELSE f.val,
         LAMBDA final :
           Then(persistEncryptedIfAny(cacheKeyResponse(f.w, final), key,
                                      h2b(final.key), h2b(final.iv)),
                LAMBDA p : Ok(p.w, final)))
cacheFetchedKey(key, e, f) ==
    With(IF e.res # None
         THEN [f.val EXCEPT !.key = b2h(Val(e.res).key),
                            !.iv = b2h(Val(e.res).iv)]
         ELSE f.val,
         LAMBDA final :
           IF e.res = None
           THEN Then(persistEncryptedIfAny(cacheKeyResponse(f.w, final), key,
                                           h2b(final.key), h2b(final.iv)),
                     LAMBDA p : Ok(p.w, final))
           ELSE Ok(cacheKeyResponse(f.w, final), final))

getKey(w, key) ==
    IF w.kr[key] # None THEN Ok(w, Val(w.kr[key]))
    ELSE With(KcGetEncrypted(w, key),
              LAMBDA e : Then(RemoteGetKey(e.w, key),
                              LAMBDA f : cacheFetchedKey(key, e, f)))

\* serverManagerOf(name) asserts that name is a privately-keyed party.
IsCurrent(name) == name \in CurrentServers

\* serverManagerOf(name): the assertion that fails ("" when none does): the
\* roster of refreshRoot, the roster of refreshRemotes, then the party.
serverManagerOf(w, name) ==
    IF ~w.roster.root THEN "refreshRoot"
    ELSE IF ~w.roster.remotes THEN "refreshRemotes"
    ELSE IF ~IsCurrent(name) THEN "precondition"
    ELSE ""

\* The getters stores and remoteName.
stores(w) ==
    IF ~w.roster.root THEN Fail(w, "refreshRoot") ELSE Ok(w, "stores")
remoteName(w) ==
    IF ~w.roster.remotes THEN Fail(w, "refreshRemotes")
    ELSE Ok(w, w.roster.remoteNameValue)

\* refreshRemotes(): fetch /server, keep one RemoteServer per entry of
\* data.keys under the entry's name, and data.current in lower case.
\* refreshRoot(): fetch /root and store the roster.
refreshRemotes(w) ==
    With(w.rm.server,
         LAMBDA data :
           Ok([Sent(w, <<"GET", "server", 0>>) EXCEPT
                  !.roster.remotes = TRUE,
                  !.roster.remoteNameValue = toLocaleLowerCase(data.current),
                  !.roster.names = data.keys],
              data.keys))
refreshRoot(w) ==
    Ok([Sent(w, <<"GET", "root", 0>>) EXCEPT !.roster.root = TRUE],
       CurrentServers)

\* decryptKey(id): the tail of the call once getKey has answered (k).
unwrapKey(keyId, k) ==
    IF serverManagerOf(k.w, k.val.server) # ""
    THEN Fail(k.w, serverManagerOf(k.w, k.val.server))
    ELSE With([key |-> h2b(k.val.key), iv |-> h2b(k.val.iv)],
              LAMBDA header :
                IF ~CanUnwrap(k.val.server, header) THEN Fail(k.w, "crypto")
                ELSE With(decryptContext(k.val.server, header),
                          LAMBDA context :
                            Ok(persistKeyContext(k.w, keyId, context), context)))

\* decryptKey(id)
decryptKey(w, keyId) ==
    With(KcGetDecrypted(w, keyId),
         LAMBDA c :
           IF c.res # None
           THEN Ok(c.w, [header |-> Val(c.res).header,
                         key |-> fromBase64(Val(c.res).key),
                         iv |-> fromBase64(Val(c.res).iv)])
           ELSE Then(getKey(c.w, keyId), LAMBDA k : unwrapKey(keyId, k)))

\* insertKey({server, context}) with the context resolved.
postKey(w, server, context) ==
    Then(RemoteCreateKey(w, server, b2h(context.header.key),
                         b2h(context.header.iv)),
         LAMBDA r :
           Ok(persistKeyContext(cacheKeyResponse(r.w, r.val), r.val.id, context),
              r.val))

\* insertKey({server, context}): context is None when the caller gives none.
insertKey(w, server, given) ==
    IF serverManagerOf(w, server) # "" THEN Fail(w, serverManagerOf(w, server))
    ELSE IF given = None
    THEN postKey([w EXCEPT !.sym = @ + 1], server, createContext(server, w.sym))
    ELSE postKey(w, server, Val(given))

\* patchKey(id, options) with the context resolved (None: metadata only).
\* The PATCH body carries the metadata and the new key and iv.
sendKeyPatch(w, id, context, metadata) ==
    IF context = None /\ ~metadata THEN Fail(w, "empty patch")
    ELSE Then(RemotePatchKey(w, id,
                 IF context = None THEN None
                 ELSE Some([key |-> b2h(Val(context).header.key),
                            iv |-> b2h(Val(context).header.iv)])),
              LAMBDA r :
                IF context # None
                THEN Ok(persistKeyContext(cacheKeyResponse(r.w, r.val), id,
                                          Val(context)),
                        r.val)
                ELSE Then(persistEncryptedIfAny(cacheKeyResponse(r.w, r.val), id,
                                                h2b(r.val.key), h2b(r.val.iv)),
                          LAMBDA p : Ok(p.w, r.val)))

\* patchKey(id, {metadata?, context?, server?})
patchKey(w, id, options) ==
    IF options.context = None /\ options.server # None
    THEN IF serverManagerOf(w, Val(options.server)) # ""
         THEN Fail(w, serverManagerOf(w, Val(options.server)))
         ELSE sendKeyPatch([w EXCEPT !.sym = @ + 1], id,
                           Some(createContext(Val(options.server), w.sym)),
                           options.metadata)
    ELSE sendKeyPatch(w, id, options.context, options.metadata)

\* deleteKey(id)
deleteKey(w, id) ==
    With(RemoteDeleteKey(w, id),
         LAMBDA r : Ok([r.w EXCEPT !.kr[id] = None], <<>>))

(***************************************************************************)
(* ObjectManager: objects.  Options a caller leaves out are None.          *)
(***************************************************************************)
\* prepareObjectEncryption without a keyId, the key server resolved: a new
\* key is created under the given context or a fresh one.
createObjectKey(w, server, given) ==
    IF server = None THEN Fail(w, "no key server")
    ELSE IF given = None /\ serverManagerOf(w, Val(server)) # ""
    THEN Fail(w, serverManagerOf(w, Val(server)))
    ELSE With(IF given = None THEN createContext(Val(server), w.sym)
              ELSE Val(given),
              LAMBDA context :
                Then(insertKey(IF given = None THEN [w EXCEPT !.sym = @ + 1]
                               ELSE w,
                               Val(server), Some(context)),
                     LAMBDA k :
                       Ok(k.w, [keyId |-> k.val.id, context |-> context])))

\* prepareObjectEncryption({keyId, keyServer, context, fallbackKeyId})
prepareObjectEncryption(w, o) ==
    IF o.keyId # None /\ o.context # None
    THEN Ok(persistKeyContext(w, Val(o.keyId), Val(o.context)),
            [keyId |-> Val(o.keyId), context |-> Val(o.context)])
    ELSE IF o.keyId # None
    THEN Then(decryptKey(w, Val(o.keyId)),
              LAMBDA d : Ok(d.w, [keyId |-> Val(o.keyId), context |-> d.val]))
    ELSE IF o.keyServer = None /\ o.fallbackKeyId # None
    THEN Then(getKey(w, Val(o.fallbackKeyId)),
              LAMBDA fallbackKey :
                createObjectKey(fallbackKey.w, Some(fallbackKey.val.server),
                                o.context))
    ELSE createObjectKey(w, o.keyServer, o.context)

\* encryptContent(payload, context)
encryptContent_plain(payload, context) ==
    With(ServerEncrypt(context, Stringify(payload)),
         LAMBDA encrypted :
           [content |-> encrypted.content, auth_tag |-> encrypted.authTag])
encryptContent(payload, context) ==
    With(ServerEncrypt(context, Stringify(payload)),
         LAMBDA encrypted :
           [content |-> b2h(encrypted.content),
            auth_tag |-> b2h(encrypted.authTag)])

\* The record a PUT / POST / PATCH answers with is cached.
cacheCreated(r) == Ok(cacheObjectResponse(r.w, r.val), r.val)

\* insertObject(options)
insertObject(w, o) ==
    Then(prepareObjectEncryption(w, o),
         LAMBDA p :
           With(encryptContent(Val(o.content), p.val.context),
                LAMBDA encrypted :
                  Then(RemoteCreateObject(p.w, p.val.keyId, encrypted.content,
                                          encrypted.auth_tag,
                                          IF o.relatedObjectId = None THEN 0
                                          ELSE Val(o.relatedObjectId)),
                       cacheCreated)))

\* patchObject(id, options) sending the body.
sendObjectPatch(w, id, body) == Then(RemotePatchObject(w, id, body), cacheCreated)

\* patchObject(id, options) once getObject(id) has answered (current).
patchCurrent_rekey(current, id, o, keyId) ==
    IF o.content = None
    THEN sendObjectPatch(current.w, id,
                         [key_id |-> Some(keyId), content |-> None,
                          auth_tag |-> None,
                          related_object_id |-> o.relatedObjectId])
    ELSE Then(prepareObjectEncryption(current.w,
                 [keyId |-> o.keyId, keyServer |-> o.keyServer,
                  context |-> o.context,
                  fallbackKeyId |-> IF o.fallbackKeyId # None
                                    THEN o.fallbackKeyId
                                    ELSE Some(current.val.key_id)]),
              LAMBDA p :
                With(encryptContent(Val(o.content), p.val.context),
                     LAMBDA encrypted :
                       sendObjectPatch(p.w, id,
                          [key_id |-> Some(p.val.keyId),
                           content |-> Some(encrypted.content),
                           auth_tag |-> Some(encrypted.auth_tag),
                           related_object_id |-> o.relatedObjectId])))
patchCurrent(current, id, o, keyId) ==
    IF o.content = None
    THEN sendObjectPatch(current.w, id,
                         [key_id |-> Some(keyId), content |-> None,
                          auth_tag |-> None,
                          related_object_id |-> o.relatedObjectId])
    ELSE Then(prepareObjectEncryption(current.w,
                 [keyId |-> Some(keyId), keyServer |-> o.keyServer,
                  context |-> o.context,
                  fallbackKeyId |-> IF o.fallbackKeyId # None
                                    THEN o.fallbackKeyId
                                    ELSE Some(current.val.key_id)]),
              LAMBDA p :
                With(encryptContent(Val(o.content), p.val.context),
                     LAMBDA encrypted :
                       sendObjectPatch(p.w, id,
                          [key_id |-> Some(p.val.keyId),
                           content |-> Some(encrypted.content),
                           auth_tag |-> Some(encrypted.auth_tag),
                           related_object_id |-> o.relatedObjectId])))

\* patchObject(id, options)
patchObject(w, id, o) ==
    Then(getObject(w, id),
         LAMBDA current :
           patchCurrent(current, id, o,
                        IF o.keyId # None THEN Val(o.keyId)
                        ELSE current.val.key_id))

\* deleteObject(id)
deleteObject(w, id) ==
    With(IF w.oc[id] = None THEN 0 ELSE Val(w.oc[id]).related_object_id,
         LAMBDA parent :
           With(RemoteDeleteObject(w, id),
                LAMBDA r :
                  Ok([r.w EXCEPT !.oc[id] = None,
                                 !.rel = [x \in DOMAIN @ |->
                                            IF x = id \/ (parent # 0 /\ x = parent)
                                            THEN None ELSE @[x]]],
                     <<>>)))

\* related.map((item) => this.cacheObjectResponse(item))
RECURSIVE CacheAll(_, _, _)
CacheAll(w, items, n) ==
    IF n > Len(items) THEN w
    ELSE CacheAll(cacheObjectResponse(w, items[n]), items, n + 1)

\* getRelatedObjects(id)
getRelatedObjects(w, id) ==
    Then(getObject(w, id),
         LAMBDA baseObject :
           IF baseObject.w.rel[id] # None
           THEN Ok(baseObject.w, Val(baseObject.w.rel[id]))
           ELSE With(RemoteGetRelated(baseObject.w, id),
                     LAMBDA f :
                       Ok([CacheAll(f.w, f.val, 1) EXCEPT !.rel[id] = Some(f.val)],
                          f.val)))

\* decryptObject(object) once getObject(object) has resolved the record.
decryptResolved(w, object) ==
    Then(decryptKey(w, object.key_id),
         LAMBDA k :
           IF ~CanDecrypt(k.val, h2b(object.auth_tag), h2b(object.content))
           THEN Fail(k.w, "crypto")
           ELSE Ok(k.w, Parse(h2b(object.content).pt)))

\* decryptObject(id)
decryptObject(w, id) ==
    Then(getObject(w, id), LAMBDA g : decryptResolved(g.w, g.val))

\* decryptObject(objectResponse): getObject caches the record it is given.
decryptObjectResponse(w, object) ==
    decryptResolved(cacheObjectResponse(w, object), object)

\* decryptRelatedObjects(id): the listing, then every item decrypted.
RECURSIVE DecryptAll(_, _, _, _)
DecryptAll(w, items, n, acc) ==
    IF n > Len(items) THEN Ok(w, acc)
    ELSE Then(decryptObjectResponse(w, items[n]),
              LAMBDA d : DecryptAll(d.w, items, n + 1, Append(acc, d.val)))

decryptRelatedObjects_skipFirst(w, id) ==
    Then(getRelatedObjects(w, id),
         LAMBDA related : DecryptAll(related.w, related.val, 2, <<>>))
decryptRelatedObjects(w, id) ==
    Then(getRelatedObjects(w, id),
         LAMBDA related : DecryptAll(related.w, related.val, 1, <<>>))

\* The body publishObject posts to /keys for the remote party.
publishKeyBody_current(targetName, context) ==
    [server |-> "main", key |-> b2h(context.header.key),
     iv |-> b2h(context.header.iv)]
publishKeyBody(targetName, context) ==
    [server |-> targetName, key |-> b2h(context.header.key),
     iv |-> b2h(context.header.iv)]

\* publishObject once the key has been created (k): the payload is encrypted
\* for the remote party, posted as a child of relatedId and handed to the job.
publishCopy_source(k, relatedId, payload, context) ==
    With(ServerEncrypt(context, Stringify(payload)),
         LAMBDA encrypted :
           Then(RemoteCreateObject(
                    persistKeyContext(cacheKeyResponse(k.w, k.val), k.val.id,
                                      context),
                    k.val.id, b2h(encrypted.content), b2h(encrypted.authTag),
                    relatedId),
                LAMBDA created :
                  RemotePublish(cacheObjectResponse(created.w, created.val),
                                relatedId, relatedId)))
publishCopy(k, relatedId, payload, context) ==
    With(ServerEncrypt(context, Stringify(payload)),
         LAMBDA encrypted :
           Then(RemoteCreateObject(
                    persistKeyContext(cacheKeyResponse(k.w, k.val), k.val.id,
                                      context),
                    k.val.id, b2h(encrypted.content), b2h(encrypted.authTag),
                    relatedId),
                LAMBDA created :
                  RemotePublish(cacheObjectResponse(created.w, created.val),
                                relatedId, created.val.id)))

\* publishObject once the source payload has been decrypted.
publishPayload(payload, relatedId, context) ==
    With(publishKeyBody(payload.w.roster.remoteNameValue, context),
         LAMBDA body :
           Then(RemoteCreateKey([payload.w EXCEPT !.sym = @ + 1], body.server,
                                body.key, body.iv),
                LAMBDA k : publishCopy(k, relatedId, payload.val, context)))

\* publishObject(type, relatedId)
publishObject(w, relatedId) ==
    IF ~w.roster.remotes THEN Fail(w, "refreshRemotes")
    ELSE IF w.roster.remoteNameValue \notin w.roster.names
         THEN Fail(w, "precondition")
    ELSE Then(getObject(w, relatedId),
              LAMBDA baseObject :
                Then(decryptObjectResponse(baseObject.w, baseObject.val),
                     LAMBDA payload :
                       publishPayload(payload, relatedId,
                                      createContext(w.roster.remoteNameValue,
                                                    payload.w.sym))))

\* unpublishObject(type, relatedId)
unpublishObject(w, relatedId) == RemoteUnpublish(w, relatedId)

(***************************************************************************)
(* Specification of one ObjectManager against the remote store.  Every     *)
(* operation runs to completion before the next starts.                    *)
(***************************************************************************)
\* The parties callers name, and the options they leave out.
Parties == CurrentServers \cup RemoteServers
NoOptions ==
    [keyId |-> None, keyServer |-> None, context |-> None,
     fallbackKeyId |-> None, content |-> None, relatedObjectId |-> None,
     server |-> None, metadata |-> FALSE]
NoResult ==
    [payload |-> None, object |-> None, key |-> None, context |-> None,
     listing |-> None, payloads |-> None]

\* What existed and what was cached when the operation started.
Pre ==
    [listed |-> {x \in ObjIds : relatedObjectsCache[x] # None},
     objs |-> {x \in ObjIds : remote.objs[x] # None},
     keys |-> {x \in KeyIds : remote.keys[x] # None}]

NoOp == [op |-> "none", id |-> 0, args |-> NoOptions, ok |-> TRUE, err |-> "",
         out |-> NoResult, log |-> <<>>,
         pre |-> [listed |-> {}, objs |-> {}, keys |-> {}]]

\* What an earlier session has left in the remote store: key 1, wrapped for
\* the Current party "main", and three objects encrypted under it: 1 and 2
\* without a parent, 3 a child of 1.
SeedContext == createContext("main", 1)
SeedKey ==
    [id |-> 1, server |-> "main", key |-> b2h(SeedContext.header.key),
     iv |-> b2h(SeedContext.header.iv)]
SeedObjects == {1, 2, 3}
SeedObject(i) ==
    With(encryptContent("Alice", SeedContext),
         LAMBDA encrypted :
           [id |-> i, key_id |-> 1, content |-> encrypted.content,
            auth_tag |-> encrypted.auth_tag,
            related_object_id |-> IF i = 3 THEN 1 ELSE 0])

\* A manager is constructed over the seeded remote store, whose /server
\* answers `server`, with one of the given key caches and rosters.
StartOn(server, backends, ttls, caps, caches, rosters) ==
    /\ backend \in backends
    /\ ttlMs \in ttls
    /\ maxEntries \in caps
    /\ clock = 0
    /\ store = [ents |-> [i \in KeyIds |-> None], order |-> <<>>]
    /\ cacheLast = NoCacheOp
    /\ objectCache = [i \in ObjIds |-> None]
    /\ keyResponseCache = [i \in KeyIds |-> None]
    /\ relatedObjectsCache = [i \in ObjIds |-> None]
    /\ remote = [keys |-> [i \in KeyIds |-> IF i = 1 THEN Some(SeedKey) ELSE None],
                 objs |-> [i \in ObjIds |-> IF i \in SeedObjects
                                            THEN Some(SeedObject(i)) ELSE None],
                 jobs |-> {}, keyCounter |-> 2, objectCounter |-> 4,
                 server |-> server]
    /\ symCounter = 2
    /\ opCount = 0
    /\ last = NoOp
    /\ roster \in rosters
    /\ cacheOps \in caches
    /\ session = 1
    /\ landsLast = "encrypted"
    /\ calls = [p \in Procs |-> IdleCall]
    /\ directory = Created
    /\ flights = NoFlights

StartWith(backends, ttls, caps, caches, rosters) ==
    StartOn(SeedServer, backends, ttls, caps, caches, rosters)

\* The same with a key cache that neither expires nor evicts.
Start(backends, caches, rosters) ==
    StartWith(backends, {None}, {None}, caches, rosters)

\* ObjectManager.create(provider, {apiKey}) or {apiKey, keyCache: new
\* InMemoryKeyCache()}: the roster is loaded.
Init == Start({"none", "memory"}, {AllWork}, {Loaded})

\* The operation settles: the manager, its key cache and the remote store
\* are as the call left them.
Settle(op, id, args, r, out) ==
    /\ opCount < MaxOps
    /\ opCount' = opCount + 1
    /\ objectCache' = r.w.oc
    /\ keyResponseCache' = r.w.kr
    /\ relatedObjectsCache' = r.w.rel
    /\ store' = r.w.kc
    /\ remote' = r.w.rm
    /\ symCounter' = r.w.sym
    /\ last' = [op |-> op, id |-> id, args |-> args, ok |-> r.ok,
                err |-> r.err, out |-> IF r.ok THEN out ELSE NoResult,
                log |-> r.w.log, pre |-> Pre]
    /\ roster' = r.w.roster
    /\ UNCHANGED <<backend, ttlMs, maxEntries, clock, cacheLast, cacheOps,
                   session, landsLast, calls, directory, flights>>

RoomForKey == remote.keyCounter <= MaxKeys /\ symCounter <= MaxSyms
RoomForObject == remote.objectCounter <= MaxObjects

GetObject(id) ==
    \E r \in {getObject(World, id)} :
       Settle("getObject", id, NoOptions, r,
              [NoResult EXCEPT !.object = Some(r.val)])

GetKey(id) ==
    \E r \in {getKey(World, id)} :
       Settle("getKey", id, NoOptions, r, [NoResult EXCEPT !.key = Some(r.val)])

DecryptKey(id) ==
    \E r \in {decryptKey(World, id)} :
       Settle("decryptKey", id, NoOptions, r,
              [NoResult EXCEPT !.context = Some(r.val)])

DecryptObject(id) ==
    \E r \in {decryptObject(World, id)} :
       Settle("decryptObject", id, NoOptions, r,
              [NoResult EXCEPT !.payload = Some(r.val)])

GetRelatedObjects(id) ==
    \E r \in {getRelatedObjects(World, id)} :
       Settle("getRelatedObjects", id, NoOptions, r,
              [NoResult EXCEPT !.listing = Some(r.val)])

DecryptRelatedObjects(id) ==
    \E r \in {decryptRelatedObjects(World, id)} :
       Settle("decryptRelatedObjects", id, NoOptions, r,
              [NoResult EXCEPT !.payloads = Some(r.val)])

InsertKey(server) ==
    /\ RoomForKey
    /\ \E r \in {insertKey(World, server, None)} :
          Settle("insertKey", 0, [NoOptions EXCEPT !.server = Some(server)], r,
                 [NoResult EXCEPT !.key = Some(r.val)])

\* patchKey with a new server, with a context the caller has just drawn from
\* a Current party, with metadata only, or with nothing.
PatchKey(id, server, party, metadata) ==
    /\ symCounter <= MaxSyms
    /\ \E o \in {[NoOptions EXCEPT
                      !.server = server, !.metadata = metadata,
                      !.context = IF party = None THEN None
                                  ELSE Some(createContext(Val(party), symCounter))]} :
       \E r \in {patchKey(IF party = None THEN World
                          ELSE [World EXCEPT !.sym = @ + 1], id, o)} :
          Settle("patchKey", id, o, r, [NoResult EXCEPT !.key = Some(r.val)])

DeleteKey(id) ==
    \E r \in {deleteKey(World, id)} :
       Settle("deleteKey", id, NoOptions, r, NoResult)

InsertObject(keyId, keyServer, content, relatedObjectId) ==
    /\ RoomForObject
    /\ keyId = None => RoomForKey
    /\ \E o \in {[NoOptions EXCEPT !.keyId = keyId, !.keyServer = keyServer,
                                     !.content = Some(content),
                                     !.relatedObjectId = relatedObjectId]} :
       \E r \in {insertObject(World, o)} :
          Settle("insertObject", 0, o, r,
                 [NoResult EXCEPT !.object = Some(r.val)])

PatchObject(id, o) ==
    \E r \in {patchObject(World, id, o)} :
       Settle("patchObject", id, o, r, [NoResult EXCEPT !.object = Some(r.val)])

DeleteObject(id) ==
    \E r \in {deleteObject(World, id)} :
       Settle("deleteObject", id, NoOptions, r, NoResult)

PublishObject(id) ==
    /\ RoomForObject /\ RoomForKey
    /\ \E r \in {publishObject(World, id)} :
          Settle("publishObject", id, NoOptions, r, NoResult)

UnpublishObject(id) ==
    \E r \in {unpublishObject(World, id)} :
       Settle("unpublishObject", id, NoOptions, r, NoResult)

RefreshRemotes ==
    \E r \in {refreshRemotes(World)} :
       Settle("refreshRemotes", 0, NoOptions, r, NoResult)

RefreshRoot ==
    \E r \in {refreshRoot(World)} :
       Settle("refreshRoot", 0, NoOptions, r, NoResult)

\* The inputs callers choose from.  The ids they pass are the ids the remote
\* store has handed out and the next one, an id no record has yet.  A new
\* object names a key server (a Current party or the remote one) or a key id;
\* a patch changes one thing: the parent, the content or the key id.
\* Children are attached to the objects in ParentIds.
KnownObjects == {x \in ObjIds : x <= remote.objectCounter}
KnownKeys == {k \in KeyIds : k <= remote.keyCounter}
KeyChoices ==
    {[keyId |-> None, keyServer |-> Some(s)] : s \in {"main", RemoteName}}
    \cup {[keyId |-> Some(k), keyServer |-> None] : k \in KnownKeys}
ParentIds == {1, 2}
OptionalParent == {None} \cup {Some(x) : x \in ParentIds}
ObjectPatches(id) ==
    {[NoOptions EXCEPT !.relatedObjectId = Some(y)] : y \in ParentIds \ {id}}
    \cup {[NoOptions EXCEPT !.content = Some(c)] : c \in Payloads}
    \cup {[NoOptions EXCEPT !.keyId = Some(k)] : k \in KnownKeys}
KeyPatches ==
    {[server |-> Some("backup"), party |-> None, metadata |-> FALSE],
     [server |-> Some(RemoteName), party |-> None, metadata |-> FALSE],
     [server |-> None, party |-> Some("main"), metadata |-> FALSE],
     [server |-> None, party |-> None, metadata |-> TRUE],
     [server |-> None, party |-> None, metadata |-> FALSE]}

Next ==
    \/ \E id \in KnownObjects : GetObject(id)
    \/ \E id \in KnownKeys : GetKey(id)
    \/ \E id \in KnownKeys : DecryptKey(id)
    \/ \E id \in KnownObjects : DecryptObject(id)
    \/ \E id \in KnownObjects : GetRelatedObjects(id)
    \/ \E id \in KnownObjects : DecryptRelatedObjects(id)
    \/ \E server \in Parties : InsertKey(server)
    \/ \E id \in KnownKeys, p \in KeyPatches :
            PatchKey(id, p.server, p.party, p.metadata)
    \/ \E id \in KnownKeys : DeleteKey(id)
    \/ \E k \in KeyChoices, content \in Payloads,
          relatedObjectId \in OptionalParent :
            InsertObject(k.keyId, k.keyServer, content, relatedObjectId)
    \/ \E id \in KnownObjects : \E o \in ObjectPatches(id) : PatchObject(id, o)
    \/ \E id \in KnownObjects : DeleteObject(id)
    \/ \E id \in KnownObjects : PublishObject(id)
    \/ \E id \in KnownObjects : UnpublishObject(id)
    \/ RefreshRemotes
    \/ RefreshRoot

Spec == Init /\ [][Next]_vars

\* SpecSessions: a manager with a key cache of any backend, with or without
\* expiry and a capacity, used for its key operations and for decryptObject;
\* time passes between operations, other clients patch keys, and the process
\* may end and a new one construct a manager (ObjectManager.create) with a
\* new cache instance: the manager's three maps start empty, as does the Map
\* of an InMemoryKeyCache, while the directory of an FsKeyCache and the
\* storage of a StorageKeyCache keep what the earlier process wrote.  The
\* processes together issue at most MaxOps operations.
MaxSessions == 2
Restart ==
    /\ session < MaxSessions
    /\ session' = session + 1
    /\ objectCache' = [i \in ObjIds |-> None]
    /\ keyResponseCache' = [i \in KeyIds |-> None]
    /\ relatedObjectsCache' = [i \in ObjIds |-> None]
    /\ store' = IF backend = "memory"
                THEN [ents |-> [i \in KeyIds |-> None], order |-> <<>>]
                ELSE store
    /\ last' = [NoOp EXCEPT !.op = "restart"]
    /\ roster' = Loaded
    /\ UNCHANGED <<backend, ttlMs, maxEntries, clock, cacheLast, remote,
                   symCounter, opCount, cacheOps, landsLast, calls, directory,
                   flights>>

\* The platform completes the two writeFile calls that persistKeyContext has
\* in flight on one file in either order.
Reschedule ==
    /\ backend = "fs"
    /\ landsLast' = IF landsLast = "encrypted" THEN "decrypted" ELSE "encrypted"
    /\ UNCHANGED <<backend, ttlMs, maxEntries, clock, store, cacheLast,
                   objectCache, keyResponseCache, relatedObjectsCache, remote,
                   symCounter, opCount, last, roster, cacheOps, session, calls,
                   directory, flights>>

\* Another client of the remote store rotates the material of key id (PATCH
\* /keys/:id with a new key and iv wrapped for the record's party).
RotatedElsewhere(id) ==
    /\ symCounter <= MaxSyms
    /\ remote.keys[id] # None
    /\ \E context \in {createContext(Val(remote.keys[id]).server, symCounter)} :
          remote' = [remote EXCEPT !.keys[id] =
                       Some([Val(@) EXCEPT !.key = b2h(context.header.key),
                                           !.iv = b2h(context.header.iv)])]
    /\ symCounter' = symCounter + 1
    /\ last' = [NoOp EXCEPT !.op = "rotated", !.id = id]
    /\ UNCHANGED <<backend, ttlMs, maxEntries, clock, store, cacheLast,
                   objectCache, keyResponseCache, relatedObjectsCache, opCount,
                   roster, cacheOps, session, landsLast, calls, directory,
                   flights>>

SessionsInit ==
    StartWith({"memory", "fs", "storage"}, {None, Some(MaxTtl)},
              {None, Some(MaxCap)}, {AllWork}, {Loaded})
SessionsNext ==
    \/ \E id \in KnownKeys : GetKey(id)
    \/ \E id \in KnownKeys : DecryptKey(id)
    \/ \E id \in KnownObjects : DecryptObject(id)
    \/ \E server \in Parties : InsertKey(server)
    \/ \E id \in KnownKeys, p \in KeyPatches :
            PatchKey(id, p.server, p.party, p.metadata)
    \/ \E id \in KnownKeys : DeleteKey(id)
    \/ Restart
    \/ \E id \in KnownKeys : RotatedElsewhere(id)
    \/ Reschedule
    \/ Tick
SpecSessions == SessionsInit /\ [][SessionsNext]_vars

(***************************************************************************)
(* SpecFlights: read operations of one ObjectManager that are in flight    *)
(* while others run.  A call in flight advances from one await to the      *)
(* next: the key cache lookup, the remote answer, the continuation that    *)
(* caches it, the unwrap, and the persists.  The persists of an FsKeyCache *)
(* await file reads and writes, which complete in any order; those of      *)
(* InMemoryKeyCache run when called, and those of StorageKeyCache read     *)
(* when called and write in the microtasks that follow, before any other   *)
(* call continues.                                                         *)
(***************************************************************************)
FlightFrame ==
    UNCHANGED <<backend, ttlMs, maxEntries, clock, cacheLast, remote,
                symCounter, opCount, last, roster, cacheOps, session,
                landsLast, calls, directory>>

\* The manager's maps and its key cache are as the step left them.
Land(w) ==
    /\ objectCache' = w.oc
    /\ keyResponseCache' = w.kr
    /\ relatedObjectsCache' = w.rel
    /\ store' = w.kc

\* The call of task t settles with r.
Return(t, r) ==
    flights' = [flights EXCEPT ![t].pc = "finished", ![t].ok = r.ok,
                               ![t].err = r.err, ![t].val = r.val]

Called(op, id) ==
    [NoFlight EXCEPT !.op = op, !.id = id, !.since = opCount]

\* getKey: finalResponse, the fetched record with the key and iv of the
\* cached encrypted slot, if there is one.
finalResponse(fetched, encryptedCache) ==
    IF encryptedCache # None
    THEN [fetched EXCEPT !.key = b2h(Val(encryptedCache).key),
                         !.iv = b2h(Val(encryptedCache).iv)]
    ELSE fetched

\* decryptKey(id) is called: await cache.getDecryptedKey(keyId).
CallDecryptKey(t, id) ==
    /\ flights[t].pc = "idle"
    /\ \E c \in {KcGetDecrypted(World, id)} :
          /\ Land(c.w)
          /\ flights' = [flights EXCEPT ![t] =
                IF c.res # None
                THEN [Called("decryptKey", id) EXCEPT
                        !.pc = "finished", !.ok = TRUE,
                        !.val = [header |-> Val(c.res).header,
                                 key |-> fromBase64(Val(c.res).key),
                                 iv |-> fromBase64(Val(c.res).iv)]]
                ELSE [Called("decryptKey", id) EXCEPT
                        !.pc = "getKey", !.missed = TRUE]]
    /\ FlightFrame

\* getObject(id) is called: the objectCache lookup.
CallGetObject(t, id) ==
    /\ flights[t].pc = "idle"
    /\ flights' = [flights EXCEPT ![t] =
          IF objectCache[id] # None
          THEN [Called("getObject", id) EXCEPT
                  !.pc = "finished", !.ok = TRUE, !.val = Val(objectCache[id])]
          ELSE [Called("getObject", id) EXCEPT !.pc = "fetch", !.missed = TRUE]]
    /\ UNCHANGED <<objectCache, keyResponseCache, relatedObjectsCache, store>>
    /\ FlightFrame

\* getRelatedObjects(id) is called: getObject(id), then the lookup in
\* relatedObjectsCache.
CallGetRelatedObjects(t, id) ==
    /\ flights[t].pc = "idle"
    /\ \E b \in {getObject(World, id)} :
          /\ Land(b.w)
          /\ flights' = [flights EXCEPT ![t] =
                IF ~b.ok
                THEN [Called("getRelatedObjects", id) EXCEPT
                        !.pc = "finished", !.err = b.err]
                ELSE IF b.w.rel[id] # None
                THEN [Called("getRelatedObjects", id) EXCEPT
                        !.pc = "finished", !.ok = TRUE, !.val = Val(b.w.rel[id])]
                ELSE [Called("getRelatedObjects", id) EXCEPT
                        !.pc = "fetch", !.missed = TRUE]]
    /\ FlightFrame

\* decryptKey: getKey(key) starts: the keyResponseCache lookup and, on a
\* miss, await this.keyCache?.getEncryptedKey?.(key).
FlightGetKey(t) ==
    /\ flights[t].pc = "getKey"
    /\ IF keyResponseCache[flights[t].id] # None
       THEN /\ flights' = [flights EXCEPT
                             ![t].pc = "unwrap",
                             ![t].held = keyResponseCache[flights[t].id]]
            /\ UNCHANGED <<objectCache, keyResponseCache, relatedObjectsCache,
                           store>>
       ELSE \E e \in {KcGetEncrypted(World, flights[t].id)} :
              /\ Land(e.w)
              /\ flights' = [flights EXCEPT ![t].pc = "fetch", ![t].enc = e.res]
    /\ FlightFrame

\* The remote store answers the request of the call.
Answer(op, id) ==
    IF op = "decryptKey" THEN RemoteGetKey(World, id)
    ELSE IF op = "getObject" THEN RemoteGetObject(World, id)
    ELSE RemoteGetRelated(World, id)

FlightFetch(t) ==
    /\ flights[t].pc = "fetch"
    /\ \E f \in {Answer(flights[t].op, flights[t].id)} :
          IF f.ok
          THEN flights' = [flights EXCEPT ![t].pc = "fetched",
                                          ![t].held = Some(f.val)]
          ELSE Return(t, f)
    /\ UNCHANGED <<objectCache, keyResponseCache, relatedObjectsCache, store>>
    /\ FlightFrame

\* The persists the call has started on an FsKeyCache: each reads the entry
\* and then writes it.
Persisting(f, d, e) ==
    [f EXCEPT !.pc = "persist", !.slots = [d |-> d, e |-> e]]

\* The continuation of the fetch runs: getObject and getRelatedObjects cache
\* the answer and return it; getKey caches finalResponse and, when no
\* encrypted slot was cached, awaits persistEncryptedKey.
FlightFetched(t) ==
    /\ flights[t].pc = "fetched"
    /\ LET f == flights[t]
           held == Val(f.held)
       IN IF f.op = "getObject"
          THEN /\ Land(cacheObjectResponse(World, held))
               /\ Return(t, Ok(World, held))
          ELSE IF f.op = "getRelatedObjects"
          THEN /\ Land([CacheAll(World, held, 1) EXCEPT !.rel[f.id] = Some(held)])
               /\ Return(t, Ok(World, held))
          ELSE \E final \in {finalResponse(held, f.enc)} :
               \E w \in {cacheKeyResponse(World, final)} :
                 IF f.enc = None /\ HasOp(w, "persistEncryptedKey")
                 THEN IF backend = "fs"
                      THEN /\ Land(w)
                           /\ flights' = [flights EXCEPT ![t] =
                                 Persisting([f EXCEPT !.held = Some(final)],
                                            "done", "read")]
                      ELSE \E p \in {persistEncryptedIfAny(w, f.id, h2b(final.key),
                                                          h2b(final.iv))} :
                             /\ Land(p.w)
                             /\ IF p.ok
                                THEN flights' = [flights EXCEPT
                                                   ![t].pc = "unwrap",
                                                   ![t].held = Some(final)]
                                ELSE Return(t, p)
                 ELSE /\ Land(w)
                      /\ flights' = [flights EXCEPT ![t].pc = "unwrap",
                                                     ![t].held = Some(final)]
    /\ FlightFrame

\* decryptKey: getKey has returned keyResponse; serverManagerOf, the unwrap,
\* and persistKeyContext(keyId, context) starts its persists.
FlightUnwrap(t) ==
    /\ flights[t].pc = "unwrap"
    /\ LET f == flights[t]
           k == Val(f.held)
           header == [key |-> h2b(k.key), iv |-> h2b(k.iv)]
       IN IF serverManagerOf(World, k.server) # ""
          THEN /\ Return(t, Fail(World, serverManagerOf(World, k.server)))
               /\ UNCHANGED <<objectCache, keyResponseCache,
                              relatedObjectsCache, store>>
          ELSE IF ~CanUnwrap(k.server, header)
          THEN /\ Return(t, Fail(World, "crypto"))
               /\ UNCHANGED <<objectCache, keyResponseCache,
                              relatedObjectsCache, store>>
          ELSE \E context \in {decryptContext(k.server, header)} :
                 IF backend = "fs"
                 THEN /\ flights' = [flights EXCEPT ![t] =
                            Persisting([f EXCEPT !.context = Some(context)],
                                       "read", "read")]
                      /\ UNCHANGED <<objectCache, keyResponseCache,
                                     relatedObjectsCache, store>>
                 ELSE /\ Land(persistKeyContext(World, f.id, context))
                      /\ Return(t, Ok(World, context))
    /\ FlightFrame

\* The entry a persist in flight writes: persistDecryptedKey (slot d) sets
\* both slots from the context, persistEncryptedKey (slot e) the encrypted
\* slot from the context's header or, in getKey, from the record.
Slotted(f, slot, base) ==
    IF slot = "d"
    THEN decryptedSlots(base, toBase64(Val(f.context).key),
                        toBase64(Val(f.context).iv), Val(f.context).header,
                        computeExpiry(Config, clock))
    ELSE IF f.context # None
    THEN encryptedSlot(base, Val(f.context).header.key,
                       Val(f.context).header.iv, computeExpiry(Config, clock))
    ELSE encryptedSlot(base, h2b(Val(f.held).key), h2b(Val(f.held).iv),
                       computeExpiry(Config, clock))

\* const entry = (await this.readEntry(id)) ?? {} of a persist in flight.
FlightRead(t, slot) ==
    /\ flights[t].pc = "persist"
    /\ flights[t].slots[slot] = "read"
    /\ \E r \in {readEntry(Config, clock, store, flights[t].id)} :
          /\ store' = r.store
          /\ flights' = [flights EXCEPT
                ![t].slots[slot] = "write",
                ![t].entry[slot] =
                    Some(Slotted(flights[t], slot,
                                 IF r.entry = None THEN EmptyEntry
                                 ELSE Val(r.entry)))]
    /\ UNCHANGED <<objectCache, keyResponseCache, relatedObjectsCache>>
    /\ FlightFrame

\* await this.storeEntry(id, entry) of a persist in flight; once the
\* persists the call awaits have settled, getKey returns to decryptKey, and
\* decryptKey returns the context.
FlightWrite(t, slot) ==
    /\ flights[t].pc = "persist"
    /\ flights[t].slots[slot] = "write"
    /\ store' = storeEntry(Config, clock, store, flights[t].id,
                           Val(flights[t].entry[slot]))
    /\ LET f == flights[t]
           settled == \A o \in {"d", "e"} \ {slot} : f.slots[o] = "done"
       IN flights' = [flights EXCEPT ![t] =
            IF ~settled THEN [f EXCEPT !.slots[slot] = "done"]
            ELSE IF f.context = None
            THEN [f EXCEPT !.slots[slot] = "done", !.pc = "unwrap"]
            ELSE [f EXCEPT !.slots[slot] = "done", !.pc = "finished",
                           !.ok = TRUE, !.val = Val(f.context)]]
    /\ UNCHANGED <<objectCache, keyResponseCache, relatedObjectsCache>>
    /\ FlightFrame

\* SpecFlights: the seeded key 1 is resolved by up to two decryptKey calls
\* at once; object 3, a child of object 1, is read and the children of 1
\* are listed by the first task; and at most MaxMutations mutations run
\* while calls are in flight: patchKey with a new context, patchObject with
\* new content, insertObject under the parent and deleteObject.
MaxMutations == 1
FlightKey == SeedKey.id
FlightParent ==
    CHOOSE x \in ParentIds :
        \E y \in SeedObjects : SeedObject(y).related_object_id = x
FlightObject ==
    CHOOSE y \in SeedObjects : SeedObject(y).related_object_id = FlightParent

FlightsInit ==
    Start({"memory", "fs", "storage"}, {AllWork}, {Loaded})

MayMutate == opCount < MaxMutations

FlightsNext ==
    \/ \E t \in Tasks : CallDecryptKey(t, FlightKey)
    \/ CallGetObject(1, FlightObject)
    \/ CallGetRelatedObjects(1, FlightParent)
    \/ \E t \in Tasks : FlightGetKey(t)
    \/ \E t \in Tasks : FlightFetch(t)
    \/ \E t \in Tasks : FlightFetched(t)
    \/ \E t \in Tasks : FlightUnwrap(t)
    \/ \E t \in Tasks, slot \in {"d", "e"} : FlightRead(t, slot)
    \/ \E t \in Tasks, slot \in {"d", "e"} : FlightWrite(t, slot)
    \/ MayMutate /\ PatchKey(FlightKey, None, Some("main"), FALSE)
    \/ \E c \in Payloads :
          MayMutate /\ PatchObject(FlightObject,
                                   [NoOptions EXCEPT !.content = Some(c)])
    \/ MayMutate /\ InsertObject(Some(FlightKey), None, "Alice",
                                 Some(FlightParent))
    \/ MayMutate /\ DeleteObject(FlightObject)

SpecFlights == FlightsInit /\ [][FlightsNext]_vars

\* SpecFaulty: the key cache supplied is one whose persists reject (a full
\* or failing store): persistDecryptedKey, persistEncryptedKey or both.
FaultyCaches ==
    {c \in [CacheOpNames -> {"works", "rejects"}] :
        /\ c["getDecryptedKey"] = "works" /\ c["getEncryptedKey"] = "works"
        /\ c # AllWork}
FaultyInit == Start({"memory", "fs", "storage"}, FaultyCaches, {Loaded})
SpecFaulty == FaultyInit /\ [][Next]_vars

\* SpecPartial: the key cache supplied implements any subset of the four
\* operations.
PartialCaches == [CacheOpNames -> {"works", "missing"}]
PartialInit == Start({"memory"}, PartialCaches, {Loaded})
SpecPartial == PartialInit /\ [][Next]_vars

\* SpecNew: new ObjectManager(provider, config): nothing is loaded until the
\* caller runs refreshRemotes and refreshRoot.
NewInit == Start({"none", "memory"}, {AllWork}, {Unloaded})
SpecNew == NewInit /\ [][Next]_vars

(***************************************************************************)
(* Claims about the ObjectManager (specification Spec).                    *)
(***************************************************************************)
Ids(listing) == {listing[n].id : n \in 1..Len(listing)}
Requests(w) == {w.log[n] : n \in 1..Len(w.log)}
ExistingObjects == {x \in ObjIds : remote.objs[x] # None}
ExistingKeys == {k \in KeyIds : remote.keys[k] # None}

\* insertObject has just created a key on a Current party for its object.
FreshKeyInsert ==
    /\ last.op = "insertObject" /\ last.ok
    /\ last.args.keyId = None
    /\ last.args.keyServer # None
    /\ Val(last.args.keyServer) \in CurrentServers

InsertUnderListed ==
    /\ last.op = "insertObject" /\ last.ok
    /\ last.args.relatedObjectId # None
    /\ Val(last.args.relatedObjectId) \in last.pre.listed

C3_ReparentInvalidatesBoth ==
    \A c \in ExistingObjects : \A Y \in ParentIds \ {c} :
    \A X \in {Val(remote.objs[c]).related_object_id} :
    \A p \in {patchObject(World, c,
                          [NoOptions EXCEPT !.relatedObjectId = Some(Y)])} :
        (X # 0 /\ X # Y /\ p.ok) =>
            /\ p.w.rel[X] = None
            /\ p.w.rel[Y] = None
            /\ \A g \in {getRelatedObjects(p.w, X)} :
                  g.ok => c \notin Ids(g.val)

\* C4: after deleteObject(c) has completed, getRelatedObjects(p) returns a
\* listing without c for every parent p whose cached listing included c, and
\* the object cache no longer holds c.
C4_DeleteRemovesFromListings ==
    \A c \in ObjIds : \A d \in {deleteObject(World, c)} :
        d.ok =>
           /\ d.w.oc[c] = None
           /\ \A p \in ObjIds :
                (/\ relatedObjectsCache[p] # None
                 /\ c \in Ids(Val(relatedObjectsCache[p])))
                => \A g \in {getRelatedObjects(d.w, p)} :
                      g.ok => c \notin Ids(g.val)

\* The ways patchKey rotates the material of a key: a new server, or a new
\* context drawn from a Current party.
Rotations(w) ==
    {[NoOptions EXCEPT !.server = Some("backup")],
     [NoOptions EXCEPT !.context = Some(createContext("main", w.sym))]}

\* C5: after patchKey has rotated the material of key K and patchObject with
\* content omitted has been applied to an object o encrypted under K, o's
\* key_id is K and decryptObject(o) returns the payload o had.
C5_RotationPreservesContent ==
    \A o \in ExistingObjects :
    \A K \in {Val(remote.objs[o]).key_id} :
    \A before \in {decryptObject(World, o)} :
        before.ok =>
           \A rotation \in Rotations(World) :
           \A k \in {patchKey([before.w EXCEPT !.sym = @ + 1], K, rotation)} :
              k.ok =>
                \A p \in {patchObject(k.w, o,
                                      [NoOptions EXCEPT !.keyId = Some(K)])} :
                   p.ok =>
                     \A after \in {decryptObject(p.w, o)} :
                        /\ p.val.key_id = K
                        /\ after.ok
                        /\ after.val = before.val

\* C6: a successful publishObject(type, id) creates exactly one key record and
\* exactly one object; the object's related_object_id is id, its key_id is
\* the new key record, whose server is the configured remote party and whose
\* id is not the key_id of the source object.
C6_PublishHandoff ==
    (last.op = "publishObject" /\ last.ok) =>
        \A newKeys \in {ExistingKeys \ last.pre.keys} :
        \A newObjects \in {ExistingObjects \ last.pre.objs} :
           /\ Cardinality(newKeys) = 1
           /\ Cardinality(newObjects) = 1
           /\ last.pre.keys \subseteq ExistingKeys
           /\ last.pre.objs \subseteq ExistingObjects
           /\ \A k \in newKeys, o \in newObjects :
                /\ Val(remote.objs[o]).related_object_id = last.id
                /\ Val(remote.objs[o]).key_id = k
                /\ Val(remote.keys[k]).server = RemoteName
                /\ k # Val(remote.objs[last.id]).key_id

C6_Witness ==
    /\ last.op = "publishObject" /\ last.ok
    /\ \E o \in ExistingObjects \ last.pre.objs :
          /\ Val(remote.objs[o]).related_object_id = last.id
          /\ Val(remote.keys[Val(remote.objs[o]).key_id]).server = RemoteName
          /\ <<last.id, o>> \in remote.jobs

\* C7: decryptKey(k) yields a context only when the server of key k is a
\* Current party; right after publishObject, decryptKey fails on the key it
\* created for the remote party, with a key cache and without one.
C7_UnwrapGate ==
    /\ \A k \in KeyIds :
       \A d \in {decryptKey(World, k)}, record \in {getKey(World, k)} :
          (d.ok /\ record.ok) => IsCurrent(record.val.server)
    /\ (last.op = "publishObject" /\ last.ok) =>
          \A k \in ExistingKeys \ last.pre.keys : ~decryptKey(World, k).ok

(***************************************************************************)
(* Claims about the key cache under the ObjectManager.                     *)
(***************************************************************************)
\* A persist call of the key cache rejected while the operation ran.
PersistRejected(log) == \E n \in 1..Len(log) : log[n][1] = "REJECTED"

\* The operations C14 names.
CachingOps == {"getKey", "decryptKey", "insertKey", "patchKey", "insertObject",
               "publishObject"}

\* C14 (specification SpecFaulty): when a persist call of the key cache
\* rejects while getKey, decryptKey, insertKey, patchKey, insertObject or
\* publishObject runs, the operation does not fail with the cache's
\* rejection: it settles as the remote operations it made decide.
C14_CacheFailuresContained ==
    (last.op \in CachingOps /\ PersistRejected(last.log)) => last.err # "cache"

\* C15 (specification Spec): without a key cache every getKey(id) and every
\* decryptKey(id) sends GET /keys/:id, also when id was resolved before.
C15_NoCacheAlwaysRemote ==
    backend = "none" =>
        \A k \in KnownKeys :
            /\ <<"GET", "key", k>> \in Requests(getKey(World, k).w)
            /\ <<"GET", "key", k>> \in Requests(decryptKey(World, k).w)

\* The store of a key cache whose decrypted (encrypted) slots are all absent.
WithoutSlots(st, decrypted, encrypted) ==
    With([i \in DOMAIN st.ents |->
            IF st.ents[i] = None THEN None
            ELSE Some([Val(st.ents[i]) EXCEPT
                         !.decrypted = IF decrypted THEN None ELSE @,
                         !.encrypted = IF encrypted THEN None ELSE @])],
         LAMBDA ents :
           [ents |-> [i \in DOMAIN ents |->
                        IF /\ ents[i] # None
                           /\ Val(ents[i]).decrypted = None
                           /\ Val(ents[i]).encrypted = None
                        THEN None ELSE ents[i]],
            order |-> SelectSeq(st.order,
                                LAMBDA i : /\ ents[i] # None
                                           /\ ~(/\ Val(ents[i]).decrypted = None
                                                /\ Val(ents[i]).encrypted = None))])

\* The world with a key cache that has the getter `op` and answers absent to
\* it for every id.
AnswersAbsent(op) ==
    [World EXCEPT !.ops[op] = "works",
                  !.kc = WithoutSlots(store, op = "getDecryptedKey",
                                      op = "getEncryptedKey")]

\* Two settled calls agree in everything but the key cache's store.
SameOutcome(a, b) ==
    /\ a.ok = b.ok /\ a.err = b.err /\ a.val = b.val
    /\ a.w.log = b.w.log /\ a.w.rm = b.w.rm
    /\ a.w.kr = b.w.kr /\ a.w.oc = b.w.oc /\ a.w.rel = b.w.rel

Missing(op) == cacheOps[op] = "missing"

\* C16 (specification SpecPartial): with a key cache that implements any
\* subset of the four operations, no operation fails for calling a missing
\* one; a missing getter is as a getter that answers absent (decryptKey,
\* decryptObject and getKey settle as they do on such a cache); a missing
\* persist writes nothing.
C16_OptionalCacheOps ==
    /\ last.err # "TypeError"
    /\ Missing("getDecryptedKey") =>
         /\ \A k \in KnownKeys :
               SameOutcome(decryptKey(World, k),
                           decryptKey(AnswersAbsent("getDecryptedKey"), k))
         /\ \A o \in KnownObjects :
               SameOutcome(decryptObject(World, o),
                           decryptObject(AnswersAbsent("getDecryptedKey"), o))
    /\ Missing("getEncryptedKey") =>
         \A k \in KnownKeys :
            SameOutcome(getKey(World, k),
                        getKey(AnswersAbsent("getEncryptedKey"), k))
    /\ Missing("persistDecryptedKey") =>
         \A i \in Present(store) : Val(store.ents[i]).decrypted = None
    /\ (Missing("persistDecryptedKey") /\ Missing("persistEncryptedKey")) =>
         Present(store) = {}

\* C16 witness: the cache has no getDecryptedKey but stores what is
\* persisted; decryptKey has succeeded on a key whose context the cache
\* holds, resolving it from the key record again.
C16_Witness ==
    /\ Missing("getDecryptedKey")
    /\ ~Missing("persistDecryptedKey")
    /\ last.op = "decryptKey" /\ last.ok
    /\ last.log = <<>>
    /\ store.ents[last.id] # None
    /\ Val(store.ents[last.id]).decrypted # None

(***************************************************************************)
(* Claims about preconditions and patches.                                 *)
(***************************************************************************)
\* A call failed fast on the roster: a precondition error that names the
\* missing refresh, nothing returned, nothing sent.
FailsFast(r) ==
    /\ ~r.ok
    /\ r.err \in {"refreshRoot", "refreshRemotes"}
    /\ r.w.log = <<>>

\* C17 (specification SpecNew): while neither refreshRoot nor refreshRemotes
\* has completed, stores, remoteName, serverManagerOf, insertKey, decryptKey,
\* decryptObject and publishObject each fail with a precondition error naming
\* the missing refresh call, return nothing, and send no request first.
C17_PreconditionsFailFast ==
    roster = Unloaded =>
        /\ FailsFast(stores(World))
        /\ FailsFast(remoteName(World))
        /\ \A s \in Parties :
              /\ serverManagerOf(World, s) \in {"refreshRoot", "refreshRemotes"}
              /\ FailsFast(insertKey(World, s, None))
        /\ \A k \in ExistingKeys : FailsFast(decryptKey(World, k))
        /\ \A o \in ExistingObjects :
              /\ FailsFast(decryptObject(World, o))
              /\ FailsFast(publishObject(World, o))

\* A PATCH request is among the requests a call sent.
SentPatch(r) == \E n \in 1..Len(r.w.log) : r.w.log[n][1] = "PATCH"

\* C18 (specification Spec): patchKey(id, {}) and patchObject(id, {}), with
\* none of their fields supplied, fail and send no PATCH request.
C18_EmptyPatchRejected ==
    /\ \A k \in ExistingKeys :
          \A r \in {patchKey(World, k, NoOptions)} : ~r.ok /\ ~SentPatch(r)
    /\ \A o \in ExistingObjects :
          \A r \in {patchObject(World, o, NoOptions)} : ~r.ok /\ ~SentPatch(r)

\* The key records of the remote store in world w.
KeysOf(w) == {k \in KeyIds : w.rm.keys[k] # None}

\* C19 (specification Spec): a successful patchObject(id, {content, metadata})
\* with no keyId and no keyServer creates no key, leaves the object's key_id as it
\* was, and decryptObject(id) then returns the new content.
C19_PatchReusesKey ==
    \A o \in ExistingObjects : \A content \in Payloads : \A metadata \in BOOLEAN :
    \A p \in {patchObject(World, o, [NoOptions EXCEPT !.content = Some(content),
                                                      !.metadata = metadata])} :
        p.ok =>
           /\ KeysOf(p.w) = ExistingKeys
           /\ \A n \in 1..Len(p.w.log) : p.w.log[n] # <<"POST", "key", p.w.log[n][3]>>
           /\ p.val.key_id = Val(remote.objs[o]).key_id
           /\ Val(p.w.rm.objs[o]).key_id = Val(remote.objs[o]).key_id
           /\ \A d \in {decryptObject(p.w, o)} : d.ok /\ d.val = content

\* C19 witness: patchObject(id, {content: "Bob"}) has succeeded on an object
\* that held "Alice"; no key was created, the key_id is the seeded key and
\* decryptObject returns "Bob".
C19_Witness ==
    /\ last.op = "patchObject" /\ last.ok
    /\ last.args.content = Some("Bob")
    /\ last.args.keyId = None /\ last.args.keyServer = None
    /\ ExistingKeys = last.pre.keys
    /\ Val(remote.objs[last.id]).key_id = 1
    /\ decryptObject(World, last.id).val = "Bob"

\* C20 (specification Spec): a successful patchObject with new content and a
\* keyServer but no keyId puts the content under a newly created key wrapped
\* for keyServer, and the patched object's key_id is that key; with neither
\* keyId nor keyServer a newly created key is wrapped for the party of
\* fallbackKeyId (by default the object's previous key).
C20_PatchCreatesKey ==
    \A o \in ExistingObjects : \A content \in Payloads :
        /\ \A keyServer \in CurrentServers :
           \A p \in {patchObject(World, o,
                        [NoOptions EXCEPT !.content = Some(content),
                                          !.keyServer = Some(keyServer)])} :
              (p.ok /\ RoomForKey) =>
                 /\ p.val.key_id \notin ExistingKeys
                 /\ p.val.key_id \in KeysOf(p.w)
                 /\ Val(p.w.rm.keys[p.val.key_id]).server = keyServer
        /\ \A fallbackKeyId \in ExistingKeys :
           \A p \in {patchObject(World, o,
                        [NoOptions EXCEPT !.content = Some(content),
                                          !.fallbackKeyId = Some(fallbackKeyId)])} :
              (p.ok /\ RoomForKey) =>
                 \A k \in KeysOf(p.w) \ ExistingKeys :
                    Val(p.w.rm.keys[k]).server =
                        Val(remote.keys[fallbackKeyId]).server

\* C21 (specification Spec): decryptRelatedObjects(X) returns the payloads of
\* exactly the children getRelatedObjects(X) returns, one per child and in
\* the same order; when the key of a child cannot be unwrapped or its
\* ciphertext does not authenticate, the call fails and returns no list.
C21_RelatedAllOrNothing ==
    \A X \in ExistingObjects :
    \A g \in {getRelatedObjects(World, X)} :
    \A d \in {decryptRelatedObjects(World, X)} :
        /\ d.ok =>
             /\ g.ok
             /\ Len(d.val) = Len(g.val)
             /\ \A n \in 1..Len(g.val) :
                  \A c \in {decryptObjectResponse(g.w, g.val[n])} :
                     c.ok /\ c.val = d.val[n]
        /\ (g.ok /\ \E n \in 1..Len(g.val) :
                       ~decryptObjectResponse(g.w, g.val[n]).ok)
           => ~d.ok /\ d.val = <<>>

\* C21 witness: decryptRelatedObjects(1) has returned the payloads of the two
\* children of object 1, "Alice" of object 3 and then "Bob" of object 4.
C21_Witness ==
    /\ last.op = "decryptRelatedObjects" /\ last.ok /\ last.id = 1
    /\ Val(last.out.payloads) = <<"Alice", "Bob">>
    /\ \E g \in {getRelatedObjects(World, 1)} :
          g.ok /\ [n \in 1..Len(g.val) |-> g.val[n].id] = <<3, 4>>

(***************************************************************************)
(* Claims about the manager and its key cache over time and across         *)
(* processes (specification SpecSessions unless said otherwise).            *)
(***************************************************************************)
\* The call r left the key-cache entries of every id but those in `own`, the
\* cached objects and the relation listings of every id but those in `objs`
\* as they were.
OthersUntouched(r, own, objs) ==
    /\ \A j \in KeyIds \ own : r.w.kc.ents[j] = store.ents[j]
    /\ \A x \in ObjIds \ objs :
          /\ r.w.oc[x] = objectCache[x]
          /\ r.w.rel[x] = relatedObjectsCache[x]

\* C22 (specification SpecSessions): a getKey, decryptKey or decryptObject
\* call that fails (fetch, unwrap or authentication failure) leaves the
\* key-cache entries, cached objects and relation listings of other ids
\* unchanged; it evicts no unrelated key-cache entry, maxEntries configured
\* or not.
C22_FailureIsolation ==
    /\ \A k \in KnownKeys :
          /\ \A r \in {getKey(World, k)} : ~r.ok => OthersUntouched(r, {k}, {})
          /\ \A r \in {decryptKey(World, k)} : ~r.ok => OthersUntouched(r, {k}, {})
    /\ \A o \in KnownObjects :
          \A r \in {decryptObject(World, o)} :
             ~r.ok => OthersUntouched(r, IF remote.objs[o] = None THEN {}
                                         ELSE {Val(remote.objs[o]).key_id}, {o})

\* The positions in the request log of a call at which a request of the
\* given method and kind was sent.
At(log, method, kind) ==
    {n \in 1..Len(log) : log[n][1] = method /\ log[n][2] = kind}

\* C23 (specification Spec): within one publishObject call the requests go
\* out in the order: those that resolve and decrypt the source, POST /keys,
\* the creation of the object, the publish job; the publish job is sent only
\* after the key and the object of this call were created, it carries the id
\* of that object, and a call in which an earlier step fails sends none.
C23_PublishOrdering ==
    \A o \in KnownObjects : \A p \in {publishObject(World, o)} :
    \A log \in {p.w.log} :
        /\ ~p.ok => At(log, "PUT", "publish") = {}
        /\ \A n \in At(log, "PUT", "publish") :
              /\ n = Len(log) /\ n >= 3
              /\ log[n - 2][1] = "POST" /\ log[n - 2][2] = "key"
              /\ log[n - 1] = <<"CREATE", "object", log[n][3]>>
              /\ \A i \in 1..(n - 3) : log[i][1] = "GET"
              /\ log[n][3] \notin ExistingObjects
              /\ log[n - 2][3] \notin ExistingKeys
              /\ p.w.rm.keys[log[n - 2][3]] # None
              /\ p.w.rm.objs[log[n][3]] # None
              /\ Val(p.w.rm.objs[log[n][3]]).key_id = log[n - 2][3]
              /\ <<o, log[n][3]>> \in p.w.rm.jobs
        /\ p.ok => At(log, "PUT", "publish") # {}

\* C23 witness: publishObject(1) has completed on a manager that had to
\* fetch the source and its key: GET object, GET key, POST key 2, the
\* creation of object 4, and the publish job for object 4.
C23_Witness ==
    /\ last.op = "publishObject" /\ last.ok /\ last.id = 1
    /\ last.log = << <<"GET", "object", 1>>, <<"GET", "key", 1>>,
                     <<"POST", "key", 2>>, <<"CREATE", "object", 4>>,
                     <<"PUT", "publish", 4>> >>
    /\ <<1, 4>> \in remote.jobs

\* The decrypted slot of id in the key cache of world w holds context.
HoldsContext(w, id, context) ==
    getDecryptedKey(Config, clock, w.kc, id).res =
        Some([header |-> context.header, key |-> toBase64(context.key),
              iv |-> toBase64(context.iv)])

\* The next decryptKey(id) after the call r returns context from the cache:
\* it sends no request.
ServedFromCache(r, id, context) ==
    \A d \in {decryptKey(r.w, id)} :
        d.ok /\ d.val = context /\ d.w.log = r.w.log

\* C24 (specification SpecSessions): with any of the three backends and no
\* expiry or eviction, once insertKey or a decryptKey(id) that missed the
\* cache has completed, the decrypted slot of id holds the context created or
\* unwrapped, and the next decryptKey(id) returns an equal context without a
\* request.
C24_ContextPersisted ==
    (ttlMs = None /\ maxEntries = None) =>
        /\ RoomForKey =>
             \A server \in CurrentServers :
             \A r \in {insertKey(World, server, None)} :
                r.ok =>
                   /\ HoldsContext(r.w, r.val.id, createContext(server, symCounter))
                   /\ ServedFromCache(r, r.val.id, createContext(server, symCounter))
        /\ \A id \in ExistingKeys :
             KcGetDecrypted(World, id).res = None =>
                \A r \in {decryptKey(World, id)} :
                   r.ok => /\ HoldsContext(r.w, id, r.val)
                           /\ ServedFromCache(r, id, r.val)

\* The encrypted slot of id in the key cache of world w holds header.
HoldsHeader(w, id, header) ==
    getEncryptedKey(Config, clock, w.kc, id).res =
        Some([key |-> header.key, iv |-> header.iv])

\* patchKey(id, {context: C}) with a context the caller has drawn from
\* "main", and patchKey(id, {server: "backup"}): the call and the context
\* that replaces the key's material.
RotateCalls(id) ==
    {[r |-> patchKey([World EXCEPT !.sym = @ + 1], id,
                     [NoOptions EXCEPT
                        !.context = Some(createContext("main", symCounter))]),
      context |-> createContext("main", symCounter)],
     [r |-> patchKey(World, id, [NoOptions EXCEPT !.server = Some("backup")]),
      context |-> createContext("backup", symCounter)]}

\* The header a KeyRecord carries.
HeaderOf(rec) == [key |-> h2b(rec.key), iv |-> h2b(rec.iv)]

\* C25 (specification SpecSessions): once patchKey(id, {context: C}) or
\* patchKey(id, {server: S}) has completed, with any backend (no capacity
\* configured), the decrypted slot of id holds the new context and the
\* encrypted slot the new header; and a decryptKey(id) started at any time
\* after the call returns the context of the patched record, never the one
\* it replaced.
C25_PatchReplacesContext ==
    /\ (maxEntries = None /\ symCounter <= MaxSyms) =>
          \A id \in ExistingKeys : \A c \in RotateCalls(id) :
             c.r.ok => /\ HoldsContext(c.r.w, id, c.context)
                       /\ HoldsHeader(c.r.w, id, c.context.header)
    /\ (/\ last.op = "patchKey" /\ last.ok
        /\ (last.args.context # None \/ last.args.server # None)) =>
          \A d \in {decryptKey(World, last.id)} :
             d.ok => d.val.header = HeaderOf(Val(last.out.key))

\* C26 (specification Spec): the wrapped key and iv of every KeyRecord were
\* wrapped by the party its server field names; after patchKey(id, {server:
\* S}) has succeeded the record of id names S, and a decryptKey(id) that
\* misses the key cache resolves S and unwraps.
C26_RecordNamesWrappingParty ==
    /\ \A k \in ExistingKeys :
          \A rec \in {Val(remote.keys[k])} :
             rec.key.wrap = rec.server /\ rec.iv.wrap = rec.server
    /\ (last.op = "patchKey" /\ last.ok /\ last.args.server # None) =>
          /\ Val(remote.keys[last.id]).server = Val(last.args.server)
          /\ KcGetDecrypted(World, last.id).res = None =>
                decryptKey(World, last.id).ok

\* The key cache holds an entry of id whose decrypted slot has expired while
\* its encrypted slot is still valid.
DecryptedLapsed(id) ==
    /\ store.ents[id] # None
    /\ SlotLapsed(Val(store.ents[id]).decrypted)
    /\ SlotValid(Val(store.ents[id]).encrypted)

\* C28 (specification SpecSessions): when the decrypted slot of id has expired
\* and its encrypted slot is still valid, decryptKey(id) unwraps the cached
\* wrapped key and sends no request to the remote store, also on a manager
\* that has not resolved id before.
C28_LapsedCostsLocalUnwrap ==
    \A id \in KnownKeys :
        DecryptedLapsed(id) =>
            \A d \in {decryptKey(World, id)} :
               /\ d.w.log = <<>>
               /\ d.ok =>
                    d.val.header =
                       [key |-> Val(Val(store.ents[id]).encrypted).key,
                        iv |-> Val(Val(store.ents[id]).encrypted).iv]

\* The encrypted slot of id as a read at the current time finds it.
CachedPair(id) == getEncryptedKey(Config, clock, store, id).res

\* C29 (specification SpecSessions): getKey(id) by string on a manager that
\* holds no KeyRecord of id returns the remote record with key and iv
\* replaced by the encrypted slot of the key cache exactly when that slot is
\* present, and the remote record as it is otherwise; it writes the
\* encrypted slot exactly when the slot was absent; a second getKey(id)
\* returns the same record without a request.
C29_GetKeyCachePrecedence ==
    \A id \in ExistingKeys :
        keyResponseCache[id] = None =>
            \A g \in {getKey(World, id)} : \A rec \in {Val(remote.keys[id])} :
               /\ g.ok
               /\ g.w.log = << <<"GET", "key", id>> >>
               /\ CachedPair(id) # None =>
                     /\ g.val = [rec EXCEPT !.key = b2h(Val(CachedPair(id)).key),
                                            !.iv = b2h(Val(CachedPair(id)).iv)]
                     /\ g.w.kc = getEncryptedKey(Config, clock, store, id).store
               /\ CachedPair(id) = None =>
                     /\ g.val = rec
                     /\ g.w.kc \in {o.store :
                           o \in persistEncryptedKey(
                                    Config, clock,
                                    getEncryptedKey(Config, clock, store, id).store,
                                    id, h2b(rec.key), h2b(rec.iv))}
               /\ \A h \in {getKey(g.w, id)} :
                     h.ok /\ h.val = g.val /\ h.w.log = g.w.log

\* C29 witness: on a new manager over a filesystem or storage cache that
\* holds the encrypted slot of key 1, getKey(1) has fetched the record, which
\* another client has rotated since, and returned it with the cached key and
\* iv; the cache entry is as it was written at time 0.
C29_Witness ==
    /\ last.op = "getKey" /\ last.ok /\ last.id = 1
    /\ session = 2
    /\ clock > 0
    /\ last.log = << <<"GET", "key", 1>> >>
    /\ store.ents[1] # None
    /\ StampOf(store, 1) = 0
    /\ CachedPair(1) = Some(HeaderOf(Val(last.out.key)))
    /\ HeaderOf(Val(remote.keys[1])) # HeaderOf(Val(last.out.key))

\* What a persistEncryptedKey(id, ...) that takes the store from `before` to
\* `after` at time now may change: an unexpired decrypted slot of id keeps
\* its value and expiresAt, and the entry of every other id is as it was, or
\* has been removed by the capacity pass.
EncryptedOnly(before, after, id, now) ==
    /\ \A e \in {before.ents[id]} :
          (/\ e # None
           /\ Val(e).decrypted # None
           /\ ~isExpired(Val(Val(e).decrypted), now))
          => /\ after.ents[id] # None
             /\ Val(after.ents[id]).decrypted = Val(e).decrypted
    /\ \A j \in DOMAIN before.ents \ {id} :
          \/ after.ents[j] = before.ents[j]
          \/ maxEntries # None /\ after.ents[j] = None

\* C30 (specification SpecOverlap): persistEncryptedKey touches only the
\* encrypted slot.  On every backend a call that has completed has left the
\* unexpired decrypted slot of its id unchanged and the entries of the other
\* ids unchanged or evicted; and on the filesystem backend, where calls
\* overlap, the write of a persistEncryptedKey call in flight leaves them so.
C30_EncryptedSlotOnly ==
    /\ cacheLast.op = "persistEncryptedKey" =>
          EncryptedOnly(Val(cacheLast.before), store, cacheLast.id, clock)
    /\ \A p \in Procs :
          (calls[p].pc = "storeEntry" /\ calls[p].op = "persistEncryptedKey")
          => EncryptedOnly(store,
                           storeEntry(Config, clock, store, calls[p].id,
                                      Val(calls[p].entry)),
                           calls[p].id, clock)

(***************************************************************************)
(* Claims about persistKeyContext under a failing key cache.               *)
(***************************************************************************)
\* Exactly one of the two persists of the key cache rejects.
OneRejects ==
    /\ backend # "none"
    /\ \E op \in CachePersists :
          /\ cacheOps[op] = "rejects"
          /\ \A o \in CachePersists \ {op} : cacheOps[o] = "works"

\* The stores the persist that works leaves when it is the only one to run
\* on st for keyId and context.
OtherWrite(st, keyId, context) ==
    IF cacheOps["persistDecryptedKey"] = "rejects"
    THEN {o.store : o \in persistEncryptedKey(Config, clock, st, keyId,
                                               context.header.key,
                                               context.header.iv)}
    ELSE {o.store : o \in persistDecryptedKey(Config, clock, st, keyId,
                                               toBase64(context.key),
                                               toBase64(context.iv),
                                               context.header)}

\* C31 (specification SpecFaulty): when exactly one of persistDecryptedKey
\* and persistEncryptedKey rejects, persistKeyContext(keyId, context) leaves
\* the key cache as the other persist alone writes it, and insertKey, which
\* ends with persistKeyContext, is fulfilled with the record of the new key
\* although a persist rejected.
C31_BestEffortDualWrite ==
    OneRejects =>
        /\ \A keyId \in KeyIds, server \in CurrentServers :
           \A context \in {createContext(server, 1)} :
              /\ persistKeyContext(World, keyId, context).kc
                     \in OtherWrite(store, keyId, context)
              /\ PersistRejected(persistKeyContext(World, keyId, context).log)
        /\ RoomForKey =>
              \A server \in CurrentServers :
              \A r \in {insertKey(World, server, None)} :
                 /\ r.ok
                 /\ PersistRejected(r.w.log)
                 /\ r.val = Val(r.w.rm.keys[r.val.id])
                 /\ r.w.kc \in OtherWrite(store, r.val.id,
                                          createContext(server, symCounter))

\* C31 witness: insertKey has been fulfilled although one persist of the key
\* cache rejected, and the entry of the new key is stored: with both slots
\* when persistEncryptedKey rejected.
C31_Witness ==
    /\ OneRejects
    /\ last.op = "insertKey" /\ last.ok
    /\ PersistRejected(last.log)
    /\ cacheOps["persistEncryptedKey"] = "rejects"
    /\ \E k \in KeyIds :
          /\ last.out.key # None /\ Val(last.out.key).id = k
          /\ store.ents[k] # None
          /\ Val(store.ents[k]).decrypted # None
          /\ Val(store.ents[k]).encrypted # None

(***************************************************************************)
(* Claims about the directory of the filesystem cache (SpecOverlap).       *)
(***************************************************************************)
\* The steps of a persist call that come after its first file access.
PastReadEntry == {"storeEntry", "readdir", "stat", "unlink"}

\* C32 (specification SpecOverlap): an FsKeyCache has issued mkdir exactly
\* once, whatever calls have run or are in flight, no readFile, writeFile,
\* readdir, stat or unlink has been issued while directoryReady was pending,
\* and a call is past its readEntry only when the directory was created.
C32_DirectoryReadiness ==
    backend = "fs" =>
        /\ directory.mkdirs = 1
        /\ ~directory.early
        /\ \A p \in Procs :
              calls[p].pc \in PastReadEntry => directory.ready = "done"
        /\ directory.ready # "done" => Present(store) = {}

\* C32 witness: two persist calls that were started before mkdir completed
\* are in flight together, one about to write its file and the other
\* unlinking in the capacity pass.
C32_Witness ==
    /\ backend = "fs"
    /\ directory.ready = "done"
    /\ \A p \in Procs : calls[p].waited
    /\ \E p, q \in Procs :
          calls[p].pc = "storeEntry" /\ calls[q].pc = "unlink"

(***************************************************************************)
(* Claims about calls in flight (specification SpecFlights).               *)
(***************************************************************************)
\* Both tasks have run decryptKey(FlightKey), both missed the key cache, and
\* no mutation has run since either was called.
BothResolved ==
    \A t \in Tasks :
        /\ flights[t].pc = "finished"
        /\ flights[t].op = "decryptKey"
        /\ flights[t].missed
        /\ flights[t].since = opCount

\* The entries of id a decryptKey(id) that runs alone and misses the key
\* cache can leave.
SingleLeaves(id) ==
    {decryptKey([World EXCEPT !.kc = WithoutSlots(store, TRUE, FALSE),
                              !.race = r], id).w.kc.ents[id] :
        r \in {"encrypted", "decrypted"}}

\* C33 (specification SpecFlights): when two decryptKey(id) calls have run
\* at once, both missing the cache, with no patchKey in between, both are
\* fulfilled with the same context, and the key cache entry of id is an
\* entry a single decryptKey(id) leaves, whatever the order of their steps.
C33_BenignRace ==
    BothResolved =>
        /\ \A t \in Tasks : flights[t].ok
        /\ flights[1].val = flights[2].val
        /\ store.ents[FlightKey] \in SingleLeaves(FlightKey)

\* C33 witness: on the filesystem backend both calls missed the key cache,
\* unwrapped the record and ran their persists, and the entry holds both
\* slots.
C33_Witness ==
    /\ BothResolved
    /\ backend = "fs"
    /\ \A t \in Tasks : flights[t].slots = [d |-> "done", e |-> "done"]
    /\ flights[1].val = SeedContext
    /\ Val(store.ents[FlightKey]).decrypted # None

\* No call is in flight.
Landed == \A t \in Tasks : flights[t].pc \in {"idle", "finished"}

\* A call of op that went to the remote store has finished, and the last
\* mutation completed after that call was made.
Overtaken(op) ==
    \E t \in Tasks :
        /\ flights[t].op = op
        /\ flights[t].pc = "finished"
        /\ flights[t].missed
        /\ flights[t].since < opCount

\* C34 (specification SpecFlights): when patchKey(id, {context: C}) has
\* completed while a decryptKey(id) was in flight, then once both have
\* finished the key cache holds C's material for id: its encrypted slot, if
\* any, is C's header, and a later decryptKey(id) returns C.
C34_RotationWins ==
    (/\ last.op = "patchKey" /\ last.ok
     /\ Overtaken("decryptKey")
     /\ Landed)
    => \A C \in {Val(last.args.context)} :
          /\ getEncryptedKey(Config, clock, store, last.id).res
                \in {None, Some(C.header)}
          /\ \A d \in {decryptKey(World, last.id)} : d.ok /\ d.val = C

\* C35 (specification SpecFlights): when insertObject or deleteObject of a
\* child of X has completed while a getRelatedObjects(X) that went to the
\* remote store was in flight, then once both have finished every
\* getRelatedObjects(X) lists the children the remote store has.
C35_ListingReflectsMutation ==
    (/\ last.op \in {"insertObject", "deleteObject"} /\ last.ok
     /\ Overtaken("getRelatedObjects")
     /\ Landed)
    => \A g \in {getRelatedObjects(World, FlightParent)} :
          /\ g.ok
          /\ g.val = RemoteGetRelated(World, FlightParent).val

\* C36 (specification SpecFlights): when patchObject(id, ...) has completed
\* while a getObject(id) that went to the remote store was in flight, then
\* once both have finished getObject(id) returns the patched record.
C36_ObjectCacheCoherence ==
    (/\ last.op = "patchObject" /\ last.ok
     /\ Overtaken("getObject")
     /\ Landed)
    => \A g \in {getObject(World, last.id)} :
          g.ok /\ g.val = Val(last.out.object)

(***************************************************************************)
(* Claims about the manager's caches and records (specification Spec).     *)
(***************************************************************************)
\* The manager after each of its read operations on object id.
Reads(id) ==
    {getObject(World, id).w, decryptObject(World, id).w,
     getRelatedObjects(World, id).w, decryptRelatedObjects(World, id).w}

\* C37 (specification Spec): a listing cached for X is still cached after
\* any getObject, decryptObject, getRelatedObjects or decryptRelatedObjects,
\* and the getRelatedObjects(X) that follows returns it without a request
\* for the listing.
C37_ReadsKeepListings ==
    \A X \in ObjIds :
        relatedObjectsCache[X] # None =>
            \A id \in KnownObjects : \A w \in Reads(id) :
                /\ w.rel[X] = relatedObjectsCache[X]
                /\ \A g \in {getRelatedObjects(w, X)} :
                      /\ g.ok
                      /\ g.val = Val(relatedObjectsCache[X])
                      /\ g.w.log = w.log

\* The call that returned r asked the remote store for key id and failed as
\* the fetch failed.
FetchFails(r, id) ==
    /\ ~r.ok
    /\ r.err = "fetch"
    /\ <<"GET", "key", id>> \in Requests(r.w)

\* C38 (specification Spec): once deleteKey(id) has completed, neither
\* getKey(id) nor decryptKey(id) returns a record or a context from the
\* manager's caches or the key cache: both ask the remote store and fail as
\* the fetch fails.
C38_DeletedKeyUnresolvable ==
    (last.op = "deleteKey" /\ last.ok) =>
        /\ FetchFails(getKey(World, last.id), last.id)
        /\ FetchFails(decryptKey(World, last.id), last.id)

\* Every object of the remote store rm references a key record of rm whose
\* context decrypts the object's stored content.
Consistent(rm) ==
    \A o \in ObjIds :
        rm.objs[o] # None =>
            \A object \in {Val(rm.objs[o])} :
               /\ object.key_id \in KeyIds
               /\ rm.keys[object.key_id] # None
               /\ \A k \in {Val(rm.keys[object.key_id])} :
                     CanDecrypt(decryptContext(k.server,
                                               [key |-> h2b(k.key), iv |-> h2b(k.iv)]),
                                h2b(object.auth_tag), h2b(object.content))

\* The outcome of each insertObject, patchObject and insertKey call a caller
\* may make next; a key id it passes is the id of a key record the remote
\* store holds.
Outcome(r) == [ok |-> r.ok, w |-> r.w]
Writes ==
    {Outcome(insertObject(World, [NoOptions EXCEPT !.keyId = k.keyId,
                                          !.keyServer = k.keyServer,
                                          !.content = Some(content),
                                          !.relatedObjectId = parent])) :
        k \in {c \in KeyChoices : c.keyId # None => Val(c.keyId) \in ExistingKeys},
        content \in Payloads, parent \in OptionalParent}
    \cup UNION {{Outcome(patchObject(World, id, o)) :
                    o \in {x \in ObjectPatches(id) :
                              x.keyId # None => Val(x.keyId) \in ExistingKeys}} :
                  id \in KnownObjects}
    \cup {Outcome(insertKey(World, server, None)) : server \in Parties}

\* C39 (specification Spec): when every stored object decrypts under the
\* context of the key its key_id names, it still does after any insertObject,
\* patchObject or insertKey that succeeds; patchObject(id, {keyId: K2})
\* without content in particular.
C39_ObjectKeyConsistency ==
    Consistent(remote) => \A r \in Writes : r.ok => Consistent(r.w.rm)

(***************************************************************************)
(* Specification of a manager loading its remote roster: the remote store  *)
(* answers GET /server with any current name and any keys, the manager is  *)
(* constructed and refreshRemotes, refreshRoot and publishObject run.      *)
(***************************************************************************)
ServerResponses ==
    {[current |-> c, keys |-> K] : c \in Spellings, K \in SUBSET Spellings \ {{}}}

\* new ObjectManager(provider, config), before and after refreshRoot().
RootLoaded == [Unloaded EXCEPT !.root = TRUE]
RosterInit ==
    \E server \in ServerResponses :
       StartOn(server, {"none"}, {None}, {None}, {AllWork},
               {Unloaded, RootLoaded})

RosterNext ==
    \/ RefreshRemotes
    \/ RefreshRoot
    \/ \E id \in SeedObjects : PublishObject(id)

SpecRoster == RosterInit /\ [][RosterNext]_vars

\* data.current names one of the entries of data.keys, in any letter case.
NamesAKey(data) ==
    \E name \in data.keys : toLocaleLowerCase(name) = toLocaleLowerCase(data.current)

\* C40 (specification SpecRoster): once refreshRemotes has succeeded on a
\* /server response whose current names one of its keys in any letter case,
\* remoteName is the name of one of the loaded remote servers and
\* publishObject does not fail with "Remote server not available.".
C40_RemoteNameResolvable ==
    (last.op = "refreshRemotes" /\ last.ok /\ NamesAKey(remote.server)) =>
        /\ remoteName(World).ok
        /\ remoteName(World).val \in roster.names
        /\ \A id \in SeedObjects : publishObject(World, id).err # "precondition"

====
